---------------------------- MODULE Spec2Model ----------------------------
(***************************************************************************)
(* A model of the room-based chat relay: the channel/session registry, the *)
(* broadcast dispatch, the input validators, the bounded message history   *)
(* and the typing tracker.  The synchronous handlers are those of          *)
(* src/unnamed/part_000; the send-message handler that awaits the emote    *)
(* catalog is the one of src/server.js (second iteration).                 *)
(*                                                                         *)
(* JavaScript strings are sequences of one-character strings, so that      *)
(* trim, toLowerCase, replace, includes and length are computed.           *)
(*                                                                         *)
(* Not modelled: the createdAt stamp of a channel and the joinedAt stamp   *)
(* of a member (no handler reads them), the order of the entries of a Map  *)
(* (only sizes, lookups and the set of values are used), the console log,  *)
(* and the add-reaction relay, which touches no state.                     *)
(***************************************************************************)
EXTENDS Integers, Sequences, FiniteSets, TLC

(***************************************************************************)
(* JavaScript values as they arrive in event payloads.                     *)
(***************************************************************************)
Str(s) == [t |-> "string", s |-> s, b |-> FALSE]
Undefined == [t |-> "undefined", s |-> <<>>, b |-> FALSE]
Null == [t |-> "null", s |-> <<>>, b |-> FALSE]
Bool(b) == [t |-> "boolean", s |-> <<>>, b |-> b]
NumberOne == [t |-> "number", s |-> <<>>, b |-> TRUE]

\* !v of JavaScript, for the value shapes above.
Falsy(v) ==
    \/ v.t \in {"undefined", "null"}
    \/ v.t = "string" /\ v.s = <<>>
    \/ v.t = "boolean" /\ ~v.b

(***************************************************************************)
(* Characters.                                                             *)
(***************************************************************************)
Upper == <<"A","B","C","D","E","F","G","H","I","J","K","L","M",
           "N","O","P","Q","R","S","T","U","V","W","X","Y","Z">>
Lower == <<"a","b","c","d","e","f","g","h","i","j","k","l","m",
           "n","o","p","q","r","s","t","u","v","w","x","y","z">>
Digits == <<"0","1","2","3","4","5","6","7","8","9">>
UpperSet == {Upper[i] : i \in 1..26}
LowerSet == {Lower[i] : i \in 1..26}
DigitSet == {Digits[i] : i \in 1..10}
WhiteSpace == {" "}

IndexOf(seq, x) == CHOOSE i \in 1..Len(seq) : seq[i] = x

LowerChar(ch) == IF ch \in UpperSet THEN Lower[IndexOf(Upper, ch)] ELSE ch

\* String.prototype.charCodeAt for the characters the model uses.
CharCode(ch) ==
    CASE ch \in UpperSet -> 64 + IndexOf(Upper, ch)
      [] ch \in LowerSet -> 96 + IndexOf(Lower, ch)
      [] ch \in DigitSet -> 47 + IndexOf(Digits, ch)
      [] ch = " " -> 32
      [] ch = "!" -> 33
      [] ch = "-" -> 45
      [] ch = ":" -> 58
      [] ch = "<" -> 60
      [] ch = ">" -> 62
      [] ch = "_" -> 95

\* The number of white space characters at the start, and at the end, of s.
RECURSIVE LeadingSpace(_, _)
LeadingSpace(s, i) ==
    IF i <= Len(s) /\ s[i] \in WhiteSpace THEN 1 + LeadingSpace(s, i + 1) ELSE 0
RECURSIVE TrailingSpace(_, _)
TrailingSpace(s, i) ==
    IF i >= 1 /\ s[i] \in WhiteSpace THEN 1 + TrailingSpace(s, i - 1) ELSE 0

\* String.prototype.trim
Trim(s) ==
    LET first == LeadingSpace(s, 1) + 1
        last == Len(s) - TrailingSpace(s, Len(s))
    IN  IF first > last THEN <<>> ELSE SubSeq(s, first, last)

\* String.prototype.toLowerCase
ToLowerCase(s) == [i \in 1..Len(s) |-> LowerChar(s[i])]

\* String.prototype.includes
Includes(s, w) ==
    \E i \in 1..(Len(s) - Len(w) + 1) : SubSeq(s, i, i + Len(w) - 1) = w

\* s.replace(/[<>]/g, '')
StripAngle(s) == SelectSeq(s, LAMBDA ch : ch \notin {"<", ">"})

\* s.replace(/[^a-zA-Z0-9_-]/g, '')
IsChannelChar(ch) == ch \in UpperSet \cup LowerSet \cup DigitSet \cup {"_", "-"}
StripNonChannel(s) == SelectSeq(s, IsChannelChar)

\* The string of n copies of the string w.
Repeat(w, n) == [i \in 1..(n * Len(w)) |-> w[((i - 1) % Len(w)) + 1]]

(***************************************************************************)
(* Configuration.                                                          *)
(***************************************************************************)
MAX_MESSAGE_HISTORY == 100
MAX_MESSAGE_LENGTH == 500
MAX_USERNAME_LENGTH == 20
MIN_USERNAME_LENGTH == 2
HISTORY_REPLAY_LIMIT == 50
REPLY_PREVIEW_LENGTH == 100
MAX_EMOTES == 10
TYPING_HANDLER_WINDOW == 5000
TYPING_SWEEP_WINDOW == 10000
SWEEP_PERIOD == 5000
CHANNEL_GRACE == 60000
CUSTOM_EMOTES_CACHE_DURATION == 300000
MAX_EMOTES_ASYNC == 15
FFZ_MIN_LENGTH == 3
FFZ_MAX_LENGTH == 25

customEmotes == {<<"K","a","p","p","a">>, <<"P","o","g","C","h","a","m","p">>,
                 <<"K","E","K","W">>, <<"L","U","L">>,
                 <<"M","o","n","k","a","S">>, <<"E","Z">>}
gifEmotes == {<<"P","e","p","e","P","a","r","t","y">>, <<"C","a","t","J","A","M">>,
              <<"E","z","D","a","n","c","e">>,
              <<"P","a","r","t","y","P","a","r","r","o","t">>}

userColors == <<"user-red", "user-orange", "user-yellow", "user-green",
                "user-blue", "user-purple", "user-pink", "user-cyan",
                "user-lime", "user-indigo", "user-teal", "user-amber">>

profanityWords == {<<"s","p","a","m">>, <<"s","c","a","m">>}

(***************************************************************************)
(* getUserColor.  The running hash is a JavaScript number that leaves the  *)
(* 32-bit range; it is kept as hi * 65536 + lo with 0 <= lo < 65536, so    *)
(* that no intermediate value leaves the range of TLC's 32-bit integers.    *)
(***************************************************************************)
W16 == 65536

Norm(hi, lo) == [hi |-> hi + (lo \div W16), lo |-> lo % W16]

\* ToInt32(h) << 5: the low 32 bits of h * 32, read as a signed integer.
Shl5ToInt32(h) ==
    LET lo32 == h.lo * 32
        hi16 == ((h.hi % W16) * 32 + (lo32 \div W16)) % W16
    IN  [hi |-> IF hi16 >= 32768 THEN hi16 - W16 ELSE hi16, lo |-> lo32 % W16]

Minus(a, b) == Norm(a.hi - b.hi, a.lo - b.lo)
PlusSmall(a, n) == Norm(a.hi, a.lo + n)
\* Math.abs left out: the hash as it is.
AbsWide_asIs(a) == a
AbsWide(a) == IF a.hi < 0 THEN Norm(0 - a.hi, 0 - a.lo) ELSE a
\* (hi * 65536 + lo) % 12, for a non-negative wide number; 65536 % 12 = 4.
ModColors(a) == ((a.hi % 12) * 4 + a.lo) % 12

\* One round of the loop body: hash = charCode + ((hash << 5) - hash).
HashStep(hash, code) == PlusSmall(Minus(Shl5ToInt32(hash), hash), code)

\* The value of hash after the first n characters.
RECURSIVE HashFrom(_, _)
HashFrom(username, n) ==
    IF n = 0 THEN [hi |-> 0, lo |-> 0]
    ELSE CHOOSE r \in {HashStep(h, CharCode(username[n])) :
                          h \in {HashFrom(username, n - 1)}} : TRUE

getUserColor(username) ==
    userColors[ModColors(AbsWide(HashFrom(username, Len(username)))) + 1]

(***************************************************************************)
(* Validators.  Each returns Null or a string value.                       *)
(***************************************************************************)
\* validateMessage returning the message as it came, not the trimmed one.
validateMessage_untrimmed(message) ==
    IF Falsy(message) \/ message.t # "string" THEN Null
    ELSE LET trimmed == Trim(message.s)
             lowerMessage == ToLowerCase(trimmed)
         IN  IF Len(trimmed) = 0 \/ Len(trimmed) > MAX_MESSAGE_LENGTH THEN Null
             ELSE IF \E word \in profanityWords : Includes(lowerMessage, word)
                  THEN Null
                  ELSE Str(message.s)

validateMessage(message) ==
    IF Falsy(message) \/ message.t # "string" THEN Null
    ELSE LET trimmed == Trim(message.s)
             lowerMessage == ToLowerCase(trimmed)
         IN  IF Len(trimmed) = 0 \/ Len(trimmed) > MAX_MESSAGE_LENGTH THEN Null
             ELSE IF \E word \in profanityWords : Includes(lowerMessage, word)
                  THEN Null
                  ELSE Str(trimmed)

\* message.match(new RegExp(`:${emoteName}:`, 'g')).length: the matches are
\* found left to right and do not overlap.
RECURSIVE CountMatches(_, _, _)
CountMatches(s, pat, from) ==
    LET starts == {i \in from..(Len(s) - Len(pat) + 1) :
                      SubSeq(s, i, i + Len(pat) - 1) = pat}
    IN  IF starts = {} THEN 0
        ELSE LET first == CHOOSE i \in starts : \A j \in starts : i <= j
             IN  1 + CountMatches(s, pat, first + Len(pat))

RECURSIVE SumOver(_, _, _)
SumOver(names, s, acc) ==
    IF names = {} THEN acc
    ELSE LET n == CHOOSE x \in names : TRUE
         IN  SumOver(names \ {n}, s, acc + CountMatches(s, <<":">> \o n \o <<":">>, 1))

emoteCount(message) == SumOver(customEmotes \cup gifEmotes, message, 0)

validateEmotes(message) == emoteCount(message) <= MAX_EMOTES

\* validateUsername without the check of the length.
validateUsername_anyLength(username) ==
    IF Falsy(username) \/ username.t # "string" THEN Null
    ELSE Str(StripAngle(Trim(username.s)))

validateUsername(username) ==
    IF Falsy(username) \/ username.t # "string" THEN Null
    ELSE LET trimmed == Trim(username.s)
         IN  IF Len(trimmed) < MIN_USERNAME_LENGTH \/ Len(trimmed) > MAX_USERNAME_LENGTH
             THEN Null
             ELSE Str(StripAngle(trimmed))

\* validateChannelName without toLowerCase().
validateChannelName_keepsCase(channel) ==
    IF Falsy(channel) \/ channel.t # "string" THEN Null
    ELSE LET trimmed == Trim(channel.s)
         IN  IF Len(trimmed) = 0 THEN Null
             ELSE Str(StripNonChannel(trimmed))

validateChannelName(channel) ==
    IF Falsy(channel) \/ channel.t # "string" THEN Null
    ELSE LET trimmed == Trim(channel.s)
         IN  IF Len(trimmed) = 0 THEN Null
             ELSE Str(ToLowerCase(StripNonChannel(trimmed)))

(***************************************************************************)
(* Bounds of the model and the inputs the environment draws from.          *)
(***************************************************************************)
MaxConns == 2
MaxTicks == 1
MaxMsgs == 1
MaxSends == 2
MaxTimers == 2
MaxPosts == 150
MaxHalfTicks == 6
MaxReplayPosts == 105
TickMs == SWEEP_PERIOD

Conns == 1..MaxConns

Ann == <<"A","n","n">>
RawUsernames ==
    { Str(Ann), Str(<<"a","n","n">>), Str(<<" ","B","o","b"," ">>),
      Str(<<"x">>), Str(Repeat(<<"y">>, 21)), Undefined }
RawChannels ==
    { Str(<<"D","e","v">>), Str(<<" ","d","e","v","!">>), Str(<<"o","p","s">>),
      Str(<<"!","!">>), Undefined }
\* The join payloads: every valid pair, and each invalid value once.
JoinInputs ==
    { p \in RawUsernames \X RawChannels :
        \/ ~Falsy(validateUsername(p[1])) /\ ~Falsy(validateChannelName(p[2]))
        \/ p[2] = Str(<<"D","e","v">>)
        \/ p[1] = Str(Ann) }

\* The join payloads of the message runs: two names in one channel, one name
\* in a second channel, and each invalid value once.
MsgJoinInputs ==
    { p \in JoinInputs :
        \/ p \in { <<Str(Ann), Str(<<"D","e","v">>)>>,
                   <<Str(<<" ","B","o","b"," ">>), Str(<<" ","d","e","v","!">>)>>,
                   <<Str(Ann), Str(<<"o","p","s">>)>> }
        \/ Falsy(validateUsername(p[1]))
        \/ Falsy(validateChannelName(p[2])) }

\* The join payloads of the runs of the awaiting handler.
AsyncJoinInputs ==
    { <<Str(Ann), Str(<<"D","e","v">>)>>,
      <<Str(Ann), Str(<<"o","p","s">>)>>,
      <<Str(<<"x">>), Str(<<"D","e","v">>)>> }

NoReply == [t |-> "undefined", username |-> Undefined, messageContent |-> Undefined]
Reply(u, m) == [t |-> "object", username |-> u, messageContent |-> m]
RawMessages ==
    { Str(<<"h","i">>), Str(<<" ","y","o"," ">>), Str(<<" ">>), Str(<<>>),
      Str(<<"S","p","A","m">>), Str(Repeat(<<"a">>, MAX_MESSAGE_LENGTH + 1)),
      Undefined }
RawReplies ==
    { NoReply, Reply(Str(Ann), Str(<<"h","i">>)), Reply(Str(<<"x">>), Str(<<"h","i">>)),
      Reply(Str(Ann), Str(<<"s","c","a","m">>)) }
\* Join payloads with names and channels that lose characters in the
\* validators: angle brackets in the name, other characters in the channel.
NameJoinInputs ==
    { <<Str(Ann), Str(<<"D","e","v">>)>>,
      <<Str(<<"<","a",">">>), Str(<<"D","e","v">>)>>,
      <<Str(<<"<",">">>), Str(<<"D","e","v">>)>>,
      <<Str(<<" ","<","B","o","b",">"," ">>), Str(<<" ","D","-","v","_","1","!">>)>>,
      <<Str(Repeat(<<"y">>, MAX_USERNAME_LENGTH)), Str(<<"D","e","v">>)>>,
      <<Str(Ann), Str(<<"!","!">>)>> }
\* Bodies at the limits of validateMessage: of 500 and 501 characters, with
\* spaces around them, and with a denylisted word in mixed case.
BodyInputs ==
    { Str(<<"h","i">>), Str(<<" ","y","o"," ">>), Str(<<" ">>),
      Str(<<"S","p","A","m">>), Str(<<"a"," ","S","C","A","M","s">>),
      Str(Repeat(<<"a">>, MAX_MESSAGE_LENGTH)),
      Str(<<" ">> \o Repeat(<<"a">>, MAX_MESSAGE_LENGTH) \o <<" ">>),
      Str(Repeat(<<"a">>, MAX_MESSAGE_LENGTH + 1)) }
\* The send-message payloads: a reply only with the first body.
SendInputs ==
    { p \in RawMessages \X RawReplies : p[2] = NoReply \/ p[1] = Str(<<"h","i">>) }
\* The send-message payloads of the runs of the awaiting handler.
AsyncSendInputs ==
    { <<Str(<<"h","i">>), NoReply>>, <<Str(<<" ","y","o"," ">>), NoReply>>,
      <<Str(<<>>), NoReply>> }
\* The catalogs the emote service may answer with.
Catalogs == { customEmotes \cup gifEmotes }
\* The decimal numeral of n, the body of the n-th message of a numbered run.
RECURSIVE Numeral(_)
Numeral(n) ==
    IF n < 10 THEN <<Digits[n + 1]>>
    ELSE Numeral(n \div 10) \o <<Digits[(n % 10) + 1]>>
RawTyping == { Bool(TRUE), Bool(FALSE), NumberOne }
\* The join payloads of the runs to the deferred deletion: two channels.
ExpiryJoinInputs ==
    { <<Str(Ann), Str(<<"D","e","v">>)>>, <<Str(Ann), Str(<<"o","p","s">>)>> }
\* The join payloads of the runs of src/chat-server.js: two names, two
\* channels, and each missing value once.
ChatServerJoinInputs ==
    { <<Str(Ann), Str(<<"D","e","v">>)>>,
      <<Str(<<"B","o","b">>), Str(<<"D","e","v">>)>>,
      <<Str(Ann), Str(<<"o","p","s">>)>>,
      <<Str(<<>>), Str(<<"D","e","v">>)>>,
      <<Str(Ann), Undefined>> }
\* The payloads of the run of Ann and Bob in 'general'.
Bob == <<"B","o","b">>
General == <<"g","e","n","e","r","a","l">>
Hello == <<"h","e","l","l","o">>
ScenarioJoinInputs == { <<Str(Ann), Str(General)>>, <<Str(Bob), Str(General)>> }
\* The bodies of the runs about the emote limit: 10 and 11 references to a
\* catalog name, 16 capitalised words without a reference, and a plain word.
EmoteBodies ==
    { Repeat(<<":","E","Z",":"," ">>, 9) \o <<":","E","Z",":">>,
      Repeat(<<":","E","Z",":"," ">>, 10) \o <<":","L","U","L",":">>,
      Repeat(<<"A","b","c"," ">>, 15) \o <<"A","b","c">>,
      <<"h","i">> }
\* The join payloads of the runs with the two queries: two names in one
\* channel, one name in a second channel.
QueryJoinInputs ==
    { <<Str(Ann), Str(<<"D","e","v">>)>>,
      <<Str(<<" ","B","o","b"," ">>), Str(<<" ","d","e","v","!">>)>>,
      <<Str(Ann), Str(<<"o","p","s">>)>> }
\* The join payloads of the typing runs: two names in one channel.
TypingJoinInputs ==
    { <<Str(Ann), Str(<<"D","e","v">>)>>,
      <<Str(<<" ","B","o","b"," ">>), Str(<<" ","d","e","v","!">>)>> }

(***************************************************************************)
(* State.                                                                  *)
(***************************************************************************)
VARIABLES
    connected,       \* the socket ids with an open connection
    users,           \* users: socket id -> [username, channel, color]
    channels,        \* channels: name -> [users, typingUsers]
    messageHistory,  \* messageHistory: channel name -> sequence of messages
    rooms,           \* the transport's rooms: socket id -> set of room names
    timers,          \* the pending setTimeout callbacks, in creation order
    now,             \* Date.now()
    emitted,         \* the events the last handler emitted, in order
    lastOp,          \* the event the last handler was run for
    customEmotesCache,      \* src/server.js: the names of the cached catalog
    customEmotesLastFetch,  \* src/server.js: the time of the last good fetch
    pending,         \* src/server.js: the send-message handlers that await
                     \* the catalog, each with what it holds in its locals
    arrivals,        \* the number of send-message events that reached the
                     \* awaiting handler
    appendLog,       \* the arrival number and the channel of each message
                     \* the awaiting handler stored, in the order of storing
    accepted         \* channel name -> the messages broadcast in the channel
                     \* since it was created, in the order of the broadcasts

asyncVars == <<customEmotesCache, customEmotesLastFetch, pending, arrivals, appendLog>>
vars == <<connected, users, channels, messageHistory, rooms, timers, now,
          emitted, lastOp, asyncVars, accepted>>

\* What the handlers read and write, as one value.
Registry ==
    [users |-> users, channels |-> channels, messageHistory |-> messageHistory,
     rooms |-> rooms, timers |-> timers, out |-> <<>>]

\* Map.prototype.set and Map.prototype.delete
MapSet(m, k, v) == [x \in (DOMAIN m) \cup {k} |-> IF x = k THEN v ELSE m[x]]
MapDelete(m, k) == [x \in (DOMAIN m) \ {k} |-> m[x]]
EmptyMap == [x \in {} |-> 0]

\* The sockets in a room.
RoomOf(R, room) == {c \in DOMAIN R.rooms : room \in R.rooms[c]}

\* socket.emit, io.to(room).emit and socket.to(room).emit
Event(ev, to, data) == [ev |-> ev, to |-> to, data |-> data]
SocketEmit(R, c, ev, data) == [R EXCEPT !.out = Append(@, Event(ev, {c}, data))]
IoToEmit(R, room, ev, data) ==
    [R EXCEPT !.out = Append(@, Event(ev, RoomOf(R, room), data))]
SocketToEmit(R, c, room, ev, data) ==
    [R EXCEPT !.out = Append(@, Event(ev, RoomOf(R, room) \ {c}, data))]

\* socket.leave that leaves the socket in the room.
SocketLeave_stays(R, c, room) == R

\* socket.join and socket.leave
SocketJoin(R, c, room) == [R EXCEPT !.rooms[c] = @ \cup {room}]
SocketLeave(R, c, room) == [R EXCEPT !.rooms[c] = @ \ {room}]

\* The payload built from channelData.typingUsers: the names with their color.
TypingData(channelData) ==
    [n \in DOMAIN channelData.typingUsers |-> [color |-> channelData.typingUsers[n].color]]

\* Array.from(channelData.users.values()).map(u => ({username, color})), as a
\* map from the socket id; the order of the list is not modelled.
UserList(channelData) ==
    [c \in DOMAIN channelData.users |->
        [username |-> channelData.users[c].username, color |-> channelData.users[c].color]]

Size(m) == Cardinality(DOMAIN m)

(***************************************************************************)
(* Helpers of the handlers.                                                *)
(***************************************************************************)
\* addMessageToHistory with the splice at the wrong end: the newest go.
addMessageToHistory_keepsOldest(R, channelName, messageData) ==
    LET history == IF channelName \in DOMAIN R.messageHistory
                   THEN R.messageHistory[channelName] ELSE <<>>
        pushed == Append(history, messageData)
        kept == IF Len(pushed) > MAX_MESSAGE_HISTORY
                THEN SubSeq(pushed, 1, MAX_MESSAGE_HISTORY)
                ELSE pushed
    IN  [R EXCEPT !.messageHistory = MapSet(@, channelName, kept)]

addMessageToHistory(R, channelName, messageData) ==
    LET history == IF channelName \in DOMAIN R.messageHistory
                   THEN R.messageHistory[channelName] ELSE <<>>
        pushed == Append(history, messageData)
        kept == IF Len(pushed) > MAX_MESSAGE_HISTORY
                THEN SubSeq(pushed, Len(pushed) - MAX_MESSAGE_HISTORY + 1, Len(pushed))
                ELSE pushed
    IN  [R EXCEPT !.messageHistory = MapSet(@, channelName, kept)]

\* getMessageHistory without the limit: the whole stored history.
getMessageHistory_whole(R, channelName) ==
    IF channelName \in DOMAIN R.messageHistory
    THEN R.messageHistory[channelName] ELSE <<>>

\* history.slice(-limit)
getMessageHistory(R, channelName) ==
    LET history == IF channelName \in DOMAIN R.messageHistory
                   THEN R.messageHistory[channelName] ELSE <<>>
    IN  IF Len(history) > HISTORY_REPLAY_LIMIT
        THEN SubSeq(history, Len(history) - HISTORY_REPLAY_LIMIT + 1, Len(history))
        ELSE history

\* leaveChannel without channelData.typingUsers.delete(user.username).
leaveChannel_keepsTyping(R, c, channelName) ==
    IF c \notin DOMAIN R.users \/ channelName \notin DOMAIN R.channels THEN R
    ELSE
      LET user == R.users[c]
          R1 == SocketLeave(R, c, channelName)
          R2 == [R1 EXCEPT
                   !.channels[channelName].users = MapDelete(@, c),
                   !.users = MapDelete(@, c)]
          channelData == R2.channels[channelName]
      IN  IF Size(channelData.users) > 0
          THEN LET E1 == IoToEmit(R2, channelName, "user-left",
                            [username |-> user.username,
                             userCount |-> Size(channelData.users),
                             color |-> user.color])
                   E2 == IoToEmit(E1, channelName, "user-typing",
                            [typingUsers |-> TypingData(channelData)])
               IN  IoToEmit(E2, channelName, "channel-info",
                      [channel |-> channelName,
                       userCount |-> Size(channelData.users),
                       users |-> UserList(channelData)])
          ELSE [R2 EXCEPT !.timers =
                   Append(@, [channelName |-> channelName, due |-> now + CHANNEL_GRACE])]

\* leaveChannel without channelData.users.delete(socket.id).
leaveChannel_keepsMember(R, c, channelName) ==
    IF c \notin DOMAIN R.users \/ channelName \notin DOMAIN R.channels THEN R
    ELSE
      LET user == R.users[c]
          R1 == SocketLeave(R, c, channelName)
          R2 == [R1 EXCEPT
                   !.channels[channelName].typingUsers = MapDelete(@, user.username),
                   !.users = MapDelete(@, c)]
          channelData == R2.channels[channelName]
      IN  IF Size(channelData.users) > 0
          THEN LET E1 == IoToEmit(R2, channelName, "user-left",
                            [username |-> user.username,
                             userCount |-> Size(channelData.users),
                             color |-> user.color])
                   E2 == IoToEmit(E1, channelName, "user-typing",
                            [typingUsers |-> TypingData(channelData)])
               IN  IoToEmit(E2, channelName, "channel-info",
                      [channel |-> channelName,
                       userCount |-> Size(channelData.users),
                       users |-> UserList(channelData)])
          ELSE [R2 EXCEPT !.timers =
                   Append(@, [channelName |-> channelName, due |-> now + CHANNEL_GRACE])]

\* leaveChannel with socket.leave after the emits: the room still holds the
\* leaver when the events go out.
leaveChannel_leavesRoomLast(R, c, channelName) ==
    IF c \notin DOMAIN R.users \/ channelName \notin DOMAIN R.channels THEN R
    ELSE
      LET user == R.users[c]
          R2 == [R EXCEPT
                   !.channels[channelName].users = MapDelete(@, c),
                   !.channels[channelName].typingUsers = MapDelete(@, user.username),
                   !.users = MapDelete(@, c)]
          channelData == R2.channels[channelName]
      IN  IF Size(channelData.users) > 0
          THEN LET E1 == IoToEmit(R2, channelName, "user-left",
                            [username |-> user.username,
                             userCount |-> Size(channelData.users),
                             color |-> user.color])
                   E2 == IoToEmit(E1, channelName, "user-typing",
                            [typingUsers |-> TypingData(channelData)])
               IN  SocketLeave(IoToEmit(E2, channelName, "channel-info",
                                  [channel |-> channelName,
                                   userCount |-> Size(channelData.users),
                                   users |-> UserList(channelData)]),
                               c, channelName)
          ELSE SocketLeave([R2 EXCEPT !.timers =
                              Append(@, [channelName |-> channelName,
                                         due |-> now + CHANNEL_GRACE])],
                           c, channelName)

leaveChannel(R, c, channelName) ==
    IF c \notin DOMAIN R.users \/ channelName \notin DOMAIN R.channels THEN R
    ELSE
      LET user == R.users[c]
          R1 == SocketLeave(R, c, channelName)
          R2 == [R1 EXCEPT
                   !.channels[channelName].users = MapDelete(@, c),
                   !.channels[channelName].typingUsers = MapDelete(@, user.username),
                   !.users = MapDelete(@, c)]
          channelData == R2.channels[channelName]
      IN  IF Size(channelData.users) > 0
          THEN LET E1 == IoToEmit(R2, channelName, "user-left",
                            [username |-> user.username,
                             userCount |-> Size(channelData.users),
                             color |-> user.color])
                   E2 == IoToEmit(E1, channelName, "user-typing",
                            [typingUsers |-> TypingData(channelData)])
               IN  IoToEmit(E2, channelName, "channel-info",
                      [channel |-> channelName,
                       userCount |-> Size(channelData.users),
                       users |-> UserList(channelData)])
          ELSE [R2 EXCEPT !.timers =
                   Append(@, [channelName |-> channelName, due |-> now + CHANNEL_GRACE])]

\* The setTimeout callback without its look at the member map.
removeIfEmpty_unchecked(R, channelName) ==
    [R EXCEPT !.channels = MapDelete(@, channelName),
              !.messageHistory = MapDelete(@, channelName)]

\* The setTimeout callback without the deletion of the history.
removeIfEmpty_keepsHistory(R, channelName) ==
    IF channelName \in DOMAIN R.channels /\ Size(R.channels[channelName].users) = 0
    THEN [R EXCEPT !.channels = MapDelete(@, channelName)]
    ELSE R

\* The body of the setTimeout callback of leaveChannel.
removeIfEmpty(R, channelName) ==
    IF channelName \in DOMAIN R.channels /\ Size(R.channels[channelName].users) = 0
    THEN [R EXCEPT !.channels = MapDelete(@, channelName),
                   !.messageHistory = MapDelete(@, channelName)]
    ELSE R

ErrInvalidUsername == "Invalid username. Must be 2-20 characters."
ErrInvalidChannel == "Invalid channel name."
ErrUsernameTaken == "Username already taken in this channel."
ErrInvalidMessage == "Invalid message or user not in channel."
ErrTooManyEmotes == "Too many emotes in message. Limit: 10 per message."

\* The name check without toLowerCase().
existingUser_caseSensitive(channelData, validUsername) ==
    \E c \in DOMAIN channelData.users :
        channelData.users[c].username = validUsername

\* Whether some member of the channel has the name, ignoring case.
existingUser(channelData, validUsername) ==
    \E c \in DOMAIN channelData.users :
        ToLowerCase(channelData.users[c].username) = ToLowerCase(validUsername)

(***************************************************************************)
(* The handlers of src/unnamed/part_000, as functions of the registry.     *)
(***************************************************************************)
joinChannel(R, c, username, channel) ==
    LET validUsername == validateUsername(username)
        validChannel == validateChannelName(channel)
    IN
    IF Falsy(validUsername)
    THEN SocketEmit(R, c, "error", [message |-> ErrInvalidUsername])
    ELSE IF Falsy(validChannel)
    THEN SocketEmit(R, c, "error", [message |-> ErrInvalidChannel])
    ELSE
      LET name == validUsername.s
          chan == validChannel.s
          R1 == IF c \in DOMAIN R.users THEN leaveChannel(R, c, R.users[c].channel) ELSE R
          R2 == IF chan \in DOMAIN R1.channels THEN R1
                ELSE [R1 EXCEPT !.channels = MapSet(@, chan,
                         [users |-> EmptyMap, typingUsers |-> EmptyMap])]
      IN
      IF existingUser(R2.channels[chan], name)
      THEN SocketEmit(R2, c, "error", [message |-> ErrUsernameTaken])
      ELSE
        LET userColor == getUserColor(name)
            R3 == [R2 EXCEPT
                     !.channels[chan].users = MapSet(@, c,
                         [username |-> name, color |-> userColor]),
                     !.users = MapSet(@, c,
                         [username |-> name, channel |-> chan, color |-> userColor])]
            R4 == SocketJoin(R3, c, chan)
            history == getMessageHistory(R4, chan)
            R5 == IF Len(history) > 0
                  THEN SocketEmit(R4, c, "message-history", [messages |-> history])
                  ELSE R4
            R6 == SocketEmit(R5, c, "joined-channel",
                     [username |-> name, channel |-> chan, color |-> userColor])
            channelData == R6.channels[chan]
            R7 == IoToEmit(R6, chan, "channel-info",
                     [channel |-> chan,
                      userCount |-> Size(channelData.users),
                      users |-> UserList(channelData)])
        IN  SocketToEmit(R7, c, chan, "user-joined",
               [username |-> name,
                userCount |-> Size(channelData.users),
                color |-> userColor])

\* validReplyTo of the send-message handler.
validReplyTo(replyTo) ==
    IF replyTo.t = "object"
    THEN LET replyUsername == validateUsername(replyTo.username)
             replyMessage == validateMessage(replyTo.messageContent)
         IN  IF ~Falsy(replyUsername) /\ ~Falsy(replyMessage)
             THEN [t |-> "object",
                   username |-> replyUsername.s,
                   messageContent |->
                       SubSeq(replyMessage.s, 1,
                              IF Len(replyMessage.s) < REPLY_PREVIEW_LENGTH
                              THEN Len(replyMessage.s) ELSE REPLY_PREVIEW_LENGTH),
                   color |-> getUserColor(replyUsername.s)]
             ELSE [t |-> "null"]
    ELSE [t |-> "null"]

\* The send with io.emit for the broadcast: every socket gets the message.
postMessage_toAll(R, c, user, validMessage, replyTo) ==
    LET messageData == [id |-> <<now, c>>,
                        username |-> user.username,
                        message |-> validMessage,
                        timestamp |-> now,
                        channel |-> user.channel,
                        color |-> user.color,
                        replyTo |-> validReplyTo(replyTo)]
        R1 == addMessageToHistory(R, user.channel, messageData)
    IN  [R1 EXCEPT !.out = Append(@, Event("new-message", DOMAIN R.rooms, messageData))]

\* The send with socket.to for the broadcast: the sender's own socket is left
\* out.
postMessage_toOthers(R, c, user, validMessage, replyTo) ==
    LET messageData == [id |-> <<now, c>>,
                        username |-> user.username,
                        message |-> validMessage,
                        timestamp |-> now,
                        channel |-> user.channel,
                        color |-> user.color,
                        replyTo |-> validReplyTo(replyTo)]
        R1 == addMessageToHistory(R, user.channel, messageData)
    IN  SocketToEmit(R1, c, user.channel, "new-message", messageData)

\* The send of the earliest iteration's shape on top of the broadcast to the
\* room: the sender gets a second copy.
postMessage_alsoSelfEmit(R, c, user, validMessage, replyTo) ==
    LET messageData == [id |-> <<now, c>>,
                        username |-> user.username,
                        message |-> validMessage,
                        timestamp |-> now,
                        channel |-> user.channel,
                        color |-> user.color,
                        replyTo |-> validReplyTo(replyTo)]
        R1 == addMessageToHistory(R, user.channel, messageData)
        R2 == IoToEmit(R1, user.channel, "new-message", messageData)
    IN  SocketEmit(R2, c, "new-message", messageData)

\* The part of the send-message handler after the validation of the body and
\* of the emotes: it reads the user object the handler got at its start.
postMessage(R, c, user, validMessage, replyTo) ==
    LET messageData == [id |-> <<now, c>>,
                        username |-> user.username,
                        message |-> validMessage,
                        timestamp |-> now,
                        channel |-> user.channel,
                        color |-> user.color,
                        replyTo |-> validReplyTo(replyTo)]
        R1 == addMessageToHistory(R, user.channel, messageData)
    IN  IoToEmit(R1, user.channel, "new-message", messageData)

\* The send-message handler with io.emit for its first error: every socket
\* is told.
sendMessage_errorToAll(R, c, message, replyTo) ==
    LET validMessage == validateMessage(message)
    IN
    IF c \notin DOMAIN R.users \/ Falsy(validMessage)
    THEN [R EXCEPT !.out = Append(@, Event("error", DOMAIN R.rooms,
                                           [message |-> ErrInvalidMessage]))]
    ELSE IF ~validateEmotes(validMessage.s)
    THEN SocketEmit(R, c, "error", [message |-> ErrTooManyEmotes])
    ELSE postMessage(R, c, R.users[c], validMessage.s, replyTo)

sendMessage(R, c, message, replyTo) ==
    LET validMessage == validateMessage(message)
    IN
    IF c \notin DOMAIN R.users \/ Falsy(validMessage)
    THEN SocketEmit(R, c, "error", [message |-> ErrInvalidMessage])
    ELSE IF ~validateEmotes(validMessage.s)
    THEN SocketEmit(R, c, "error", [message |-> ErrTooManyEmotes])
    ELSE postMessage(R, c, R.users[c], validMessage.s, replyTo)

\* The loop that deletes the typing entries older than the window.
dropOlderThan(typingUsers, window) ==
    [n \in {m \in DOMAIN typingUsers : ~(now - typingUsers[m].timestamp > window)}
        |-> typingUsers[n]]

typing(R, c, isTyping) ==
    IF c \notin DOMAIN R.users THEN R
    ELSE
      LET user == R.users[c]
      IN
      IF user.channel \notin DOMAIN R.channels THEN R
      ELSE IF ~Falsy(isTyping) /\ isTyping.t = "boolean"
      THEN LET R1 == IF ~Falsy(isTyping)
                     THEN [R EXCEPT !.channels[user.channel].typingUsers =
                              MapSet(@, user.username,
                                     [timestamp |-> now, color |-> user.color])]
                     ELSE [R EXCEPT !.channels[user.channel].typingUsers =
                              MapDelete(@, user.username)]
               R2 == [R1 EXCEPT !.channels[user.channel].typingUsers =
                         dropOlderThan(@, TYPING_HANDLER_WINDOW)]
           IN  IoToEmit(R2, user.channel, "user-typing",
                  [typingUsers |-> TypingData(R2.channels[user.channel])])
      ELSE R

\* The body of the answer to GET /api/channels: one entry for each channel.
channelStats(R) ==
    { [name |-> n, userCount |-> Size(R.channels[n].users)] : n \in DOMAIN R.channels }

\* The get-users handler answering to the whole room.
getUsers_toRoom(R, c) ==
    IF c \notin DOMAIN R.users THEN R
    ELSE IF R.users[c].channel \notin DOMAIN R.channels THEN R
    ELSE IoToEmit(R, R.users[c].channel, "users-list",
            [users |-> UserList(R.channels[R.users[c].channel])])

getUsers(R, c) ==
    IF c \notin DOMAIN R.users THEN R
    ELSE IF R.users[c].channel \notin DOMAIN R.channels THEN R
    ELSE SocketEmit(R, c, "users-list",
            [users |-> UserList(R.channels[R.users[c].channel])])

disconnect(R, c) ==
    IF c \in DOMAIN R.users THEN leaveChannel(R, c, R.users[c].channel) ELSE R

\* The interval callback that broadcasts whether or not it deleted an entry.
sweepChannel_alwaysEmits(R, channelName) ==
    LET R1 == [R EXCEPT !.channels[channelName].typingUsers =
                  dropOlderThan(@, TYPING_SWEEP_WINDOW)]
    IN  IoToEmit(R1, channelName, "user-typing",
           [typingUsers |-> TypingData(R1.channels[channelName])])

\* The interval callback without its broadcast.
sweepChannel_silent(R, channelName) ==
    [R EXCEPT !.channels[channelName].typingUsers =
        dropOlderThan(@, TYPING_SWEEP_WINDOW)]

\* One channel of the setInterval callback.
sweepChannel(R, channelName) ==
    LET before == R.channels[channelName].typingUsers
        after == dropOlderThan(before, TYPING_SWEEP_WINDOW)
        hasChanges == DOMAIN after # DOMAIN before
        R1 == [R EXCEPT !.channels[channelName].typingUsers = after]
    IN  IF hasChanges
        THEN IoToEmit(R1, channelName, "user-typing",
                [typingUsers |-> TypingData(R1.channels[channelName])])
        ELSE R1

RECURSIVE sweepAll(_, _)
sweepAll(R, names) ==
    IF names = {} THEN R
    ELSE LET n == CHOOSE x \in names : TRUE
         IN  sweepAll(sweepChannel(R, n), names \ {n})

periodicSweep(R) == sweepAll(R, DOMAIN R.channels)

(***************************************************************************)
(* The handlers of src/chat-server.js, the earliest iteration: names and   *)
(* channels are stored as they arrive, a channel is a map of members only, *)
(* and an empty channel is deleted at once.                                *)
(***************************************************************************)
ErrNameAndChannelRequired == "Username and channel are required"

\* Array.from(channel.users.values()).map(u => u.username), as a map from the
\* socket id; the order of the list is not modelled.
chatServer_usernames(channel) ==
    [c \in DOMAIN channel.users |-> channel.users[c].username]

chatServer_leaveChannel(R, c, channelName) ==
    IF c \notin DOMAIN R.users \/ channelName \notin DOMAIN R.channels THEN R
    ELSE
      LET user == R.users[c]
          R1 == [R EXCEPT !.channels[channelName].users = MapDelete(@, c),
                          !.users = MapDelete(@, c)]
          R2 == SocketLeave(R1, c, channelName)
          channel == R2.channels[channelName]
      IN  IF Size(channel.users) > 0
          THEN SocketToEmit(R2, c, channelName, "user-left",
                  [username |-> user.username,
                   message |-> <<user.username, " left the channel">>,
                   userCount |-> Size(channel.users),
                   users |-> chatServer_usernames(channel)])
          ELSE [R2 EXCEPT !.channels = MapDelete(@, channelName)]

chatServer_joinChannel(R, c, username, channelName) ==
    LET R1 == IF channelName \in DOMAIN R.channels THEN R
              ELSE [R EXCEPT !.channels = MapSet(@, channelName, [users |-> EmptyMap])]
        R2 == [R1 EXCEPT
                 !.channels[channelName].users =
                     MapSet(@, c, [username |-> username, socketId |-> c]),
                 !.users = MapSet(@, c, [username |-> username, channel |-> channelName])]
        R3 == SocketJoin(R2, c, channelName)
        channel == R3.channels[channelName]
        R4 == SocketToEmit(R3, c, channelName, "user-joined",
                 [username |-> username,
                  message |-> <<username, " joined the channel">>,
                  userCount |-> Size(channel.users),
                  users |-> chatServer_usernames(channel)])
    IN  SocketEmit(R4, c, "channel-info",
           [channel |-> channelName,
            userCount |-> Size(channel.users),
            users |-> chatServer_usernames(channel)])

\* socket.on('join-channel', ...) of src/chat-server.js
chatServer_join(R, c, username, channel) ==
    IF Falsy(username) \/ Falsy(channel)
    THEN SocketEmit(R, c, "error", [message |-> ErrNameAndChannelRequired])
    ELSE
      LET R1 == IF c \in DOMAIN R.users
                THEN chatServer_leaveChannel(R, c, R.users[c].channel)
                ELSE R
          R2 == chatServer_joinChannel(R1, c, username, channel)
      IN  SocketEmit(R2, c, "joined-channel",
             [username |-> username,
              channel |-> channel,
              message |-> <<"Welcome to #", channel, "!">>])

\* socket.on('typing', ...) of src/chat-server.js: a relay to the others.
chatServer_typing(R, c, isTyping) ==
    IF c \in DOMAIN R.users
    THEN SocketToEmit(R, c, R.users[c].channel, "user-typing",
            [username |-> R.users[c].username, isTyping |-> isTyping])
    ELSE R

\* socket.on('disconnect', ...) of src/chat-server.js
chatServer_disconnect(R, c) ==
    IF c \in DOMAIN R.users
    THEN chatServer_leaveChannel(R, c, R.users[c].channel)
    ELSE R

(***************************************************************************)
(* The send-message handler of src/server.js, which awaits the emote       *)
(* catalog.  The handler runs up to its await; what follows the await runs *)
(* when the catalog request has answered.  When the cache is filled and    *)
(* fresh nothing is requested, and what follows the await runs before the  *)
(* next event is dispatched.                                               *)
(***************************************************************************)
ErrTooManyEmotesAsync == "Too many emotes in message. Limit: 15 per message."

\* The condition of getCustomEmotes under which the catalog is requested.
cacheExpiredOrEmpty ==
    \/ Cardinality(customEmotesCache) = 0
    \/ (now - customEmotesLastFetch) > CUSTOM_EMOTES_CACHE_DURATION

\* message.split(/\s+/), for a trimmed message.
RECURSIVE SplitWords(_, _, _)
SplitWords(s, i, word) ==
    IF i > Len(s) THEN (IF word = <<>> THEN <<>> ELSE <<word>>)
    ELSE IF s[i] \in WhiteSpace
         THEN (IF word = <<>> THEN <<>> ELSE <<word>>) \o SplitWords(s, i + 1, <<>>)
         ELSE SplitWords(s, i + 1, Append(word, s[i]))

\* The filter of validateEmotes for the words that may be emote names.
IsWordChar(ch) == ch \in UpperSet \cup LowerSet \cup DigitSet \cup {"_"}
potentialFFZEmote(word) ==
    /\ Len(word) >= FFZ_MIN_LENGTH
    /\ Len(word) <= FFZ_MAX_LENGTH
    /\ \A i \in 1..Len(word) : IsWordChar(word[i])
    /\ \/ word[1] \notin LowerSet
       \/ Includes(word, <<"p","e","p","e">>)
       \/ Includes(word, <<"m","o","n","k","a">>)

\* validateEmotes of src/server.js, after its await, with the cache it reads.
validateEmotesCached(message, cache) ==
    SumOver(cache, message, 0)
        + Len(SelectSeq(SplitWords(message, 1, <<>>), potentialFFZEmote))
      <= MAX_EMOTES_ASYNC

\* The handler from the answer of validateEmotes on: it uses the user object
\* and the body it got before the await.
sendMessageResume(R, k, cache) ==
    IF ~validateEmotesCached(k.validMessage, cache)
    THEN SocketEmit(R, k.conn, "error", [message |-> ErrTooManyEmotesAsync])
    ELSE postMessage(R, k.conn, k.user, k.validMessage, k.replyTo)

(***************************************************************************)
(* The state machine.  The connections are open from the start: accepting  *)
(* one changes nothing the handlers read.  A socket id is never used again *)
(* once its connection is closed.                                          *)
(***************************************************************************)
Init ==
    /\ connected = Conns
    /\ users = EmptyMap
    /\ channels = EmptyMap
    /\ messageHistory = EmptyMap
    /\ rooms = [c \in Conns |-> {}]
    /\ timers = <<>>
    /\ now = 0
    /\ emitted = <<>>
    /\ lastOp = [op |-> "listen"]
    /\ customEmotesCache = {}
    /\ customEmotesLastFetch = 0
    /\ pending = {}
    /\ arrivals = 0
    /\ appendLog = <<>>
    /\ accepted = EmptyMap

\* The record of the broadcast messages after a handler: without the channels
\* the handler deleted, with the message the handler broadcast.
Broadcast(R) ==
    LET live == [ch \in DOMAIN accepted \cap DOMAIN R.channels |-> accepted[ch]]
        posted == SelectSeq(R.out, LAMBDA e : e.ev = "new-message")
    IN  IF posted = <<>> THEN live
        ELSE LET ch == posted[1].data.channel
             IN  MapSet(live, ch,
                        Append(IF ch \in DOMAIN live THEN live[ch] ELSE <<>>,
                               posted[1].data))

\* The registry after a handler, written back to the variables.
Commit(R) ==
    /\ users' = R.users
    /\ channels' = R.channels
    /\ messageHistory' = R.messageHistory
    /\ rooms' = R.rooms
    /\ timers' = R.timers
    /\ emitted' = R.out
    /\ accepted' = Broadcast(R)

RECURSIVE SumLen(_, _)
SumLen(m, keys) ==
    IF keys = {} THEN 0
    ELSE LET k == CHOOSE x \in keys : TRUE
         IN  Len(m[k]) + SumLen(m, keys \ {k})
StoredMessages == SumLen(messageHistory, DOMAIN messageHistory)

Join(c, username, channel) ==
    /\ c \in connected
    /\ LET R == joinChannel(Registry, c, username, channel)
       IN  Len(R.timers) <= MaxTimers /\ Commit(R)
    /\ lastOp' = [op |-> "join-channel", conn |-> c]
    /\ UNCHANGED <<connected, now, asyncVars>>

SendMessage(c, message, replyTo) ==
    /\ c \in connected
    /\ Commit(sendMessage(Registry, c, message, replyTo))
    /\ lastOp' = [op |-> "send-message", conn |-> c]
    /\ UNCHANGED <<connected, now, asyncVars>>

Typing(c, isTyping) ==
    /\ c \in connected
    /\ Commit(typing(Registry, c, isTyping))
    /\ lastOp' = [op |-> "typing", conn |-> c, isTyping |-> isTyping]
    /\ UNCHANGED <<connected, now, asyncVars>>

GetUsers(c) ==
    /\ c \in connected
    /\ Commit(getUsers(Registry, c))
    /\ lastOp' = [op |-> "get-users", conn |-> c]
    /\ UNCHANGED <<connected, now, asyncVars>>

\* The transport takes the socket out of its rooms, then runs the handler.
Disconnect(c) ==
    /\ c \in connected
    /\ connected' = connected \ {c}
    /\ LET R == disconnect([Registry EXCEPT !.rooms[c] = {}], c)
       IN  Len(R.timers) <= MaxTimers /\ Commit(R)
    /\ lastOp' = [op |-> "disconnect", conn |-> c]
    /\ UNCHANGED <<now, asyncVars>>

\* The oldest setTimeout callback runs when it is due; every callback has the
\* same delay, so the callbacks run in the order of their creation.
TimerDue == timers # <<>> /\ Head(timers).due <= now
FireTimer ==
    /\ TimerDue
    /\ Commit(removeIfEmpty([Registry EXCEPT !.timers = Tail(@)], Head(timers).channelName))
    /\ lastOp' = [op |-> "timeout"]
    /\ UNCHANGED <<connected, now, asyncVars>>

\* The setInterval callback runs every SWEEP_PERIOD after the start.
SweepInstant == now > 0 /\ now % SWEEP_PERIOD = 0
Sweep ==
    /\ SweepInstant
    /\ Commit(periodicSweep(Registry))
    /\ lastOp' = [op |-> "interval"]
    /\ UNCHANGED <<connected, now, asyncVars>>

\* A callback that is due runs before the clock moves on: the setTimeout
\* callback at the head, and the interval callback if it has an entry to delete.
SweepPending == SweepInstant /\ periodicSweep(Registry).channels # channels
Tick ==
    /\ now + TickMs <= MaxTicks * TickMs
    /\ ~TimerDue
    /\ ~SweepPending
    /\ now' = now + TickMs
    /\ lastOp' = [op |-> "tick"]
    /\ emitted' = <<>>
    /\ UNCHANGED <<connected, users, channels, messageHistory, rooms, timers, asyncVars, accepted>>

\* Nobody types and no event arrives until the oldest setTimeout callback is
\* due: the interval callbacks in between find no entry to delete.
TypingIdle == \A n \in DOMAIN channels : channels[n].typingUsers = EmptyMap
Quiet ==
    /\ timers # <<>>
    /\ Head(timers).due > now
    /\ Head(timers).due <= MaxTicks * TickMs + CHANNEL_GRACE
    /\ TypingIdle
    /\ now' = Head(timers).due
    /\ lastOp' = [op |-> "tick"]
    /\ emitted' = <<>>
    /\ UNCHANGED <<connected, users, channels, messageHistory, rooms, timers, asyncVars, accepted>>

Next ==
    \/ \E c \in Conns, p \in JoinInputs : Join(c, p[1], p[2])
    \/ \E c \in Conns, p \in SendInputs :
          SendMessage(c, p[1], p[2]) /\ StoredMessages' <= MaxMsgs
    \/ \E c \in Conns, t \in RawTyping : Typing(c, t)
    \/ \E c \in Conns : GetUsers(c)
    \/ \E c \in Conns : Disconnect(c)
    \/ FireTimer
    \/ Sweep
    \/ Tick
    \/ Quiet

Spec == Init /\ [][Next]_vars

\* Joining, leaving and the deferred deletion.
NextLife ==
    \/ \E c \in Conns, p \in JoinInputs : Join(c, p[1], p[2])
    \/ \E c \in Conns : Disconnect(c)
    \/ FireTimer
    \/ Tick
    \/ Quiet
SpecLife == Init /\ [][NextLife]_vars

\* Messages, typing and the user list among the members, at one instant.
NextMsg ==
    \/ \E c \in Conns, p \in MsgJoinInputs : Join(c, p[1], p[2])
    \/ \E c \in Conns, p \in SendInputs :
          SendMessage(c, p[1], p[2]) /\ StoredMessages' <= MaxMsgs
    \/ \E c \in Conns, t \in RawTyping : Typing(c, t)
    \/ \E c \in Conns : Disconnect(c)
SpecMsg == Init /\ [][NextMsg]_vars

\* socket.on('send-message', async ...) of src/server.js up to its await.
SendStart(c, message, replyTo) ==
    /\ c \in connected
    /\ arrivals < MaxSends
    /\ arrivals' = arrivals + 1
    /\ lastOp' = [op |-> "send-message-async", conn |-> c]
    /\ LET validMessage == validateMessage(message)
           k == [no |-> arrivals + 1, conn |-> c, user |-> users[c],
                 validMessage |-> validMessage.s, replyTo |-> replyTo]
       IN  IF c \notin DOMAIN users \/ Falsy(validMessage)
           THEN /\ Commit(SocketEmit(Registry, c, "error", [message |-> ErrInvalidMessage]))
                /\ UNCHANGED <<pending, appendLog>>
           ELSE IF cacheExpiredOrEmpty
           THEN /\ pending' = pending \cup {k}
                /\ Commit(Registry)
                /\ UNCHANGED appendLog
           ELSE LET R == sendMessageResume(Registry, k, customEmotesCache)
                IN  /\ Commit(R)
                    /\ appendLog' = IF R.messageHistory # messageHistory
                                    THEN Append(appendLog, [no |-> k.no, channel |-> k.user.channel])
                                    ELSE appendLog
                    /\ UNCHANGED pending
    /\ UNCHANGED <<connected, now, customEmotesCache, customEmotesLastFetch>>

\* The catalog request of one awaiting handler answers: with a catalog, which
\* fetchCustomEmotesFromAPI puts in the cache, or with a failure, which
\* leaves the cache as it is.  The handler then goes on.
SendResume(k, ok, catalog) ==
    /\ k \in pending
    /\ pending' = pending \ {k}
    /\ customEmotesCache' = IF ok THEN catalog ELSE customEmotesCache
    /\ customEmotesLastFetch' = IF ok THEN now ELSE customEmotesLastFetch
    /\ lastOp' = [op |-> "send-message-resumed", conn |-> k.conn]
    /\ LET R == sendMessageResume(Registry, k, customEmotesCache')
       IN  /\ Commit(R)
           /\ appendLog' = IF R.messageHistory # messageHistory
                           THEN Append(appendLog, [no |-> k.no, channel |-> k.user.channel])
                           ELSE appendLog
    /\ UNCHANGED <<connected, now, arrivals>>

\* Joins, disconnects and the awaiting send-message handler.
NextAsync ==
    \/ \E c \in Conns, p \in AsyncJoinInputs : Join(c, p[1], p[2])
    \/ \E c \in Conns, p \in AsyncSendInputs : SendStart(c, p[1], p[2])
    \/ \E k \in pending, ok \in BOOLEAN, catalog \in Catalogs : SendResume(k, ok, catalog)
    \/ \E c \in Conns : Disconnect(c)
SpecAsync == Init /\ [][NextAsync]_vars

\* One member posts numbered messages, one after the other; early in the run
\* the channel may be left, deleted and created again.
BroadcastCount == SumLen(accepted, DOMAIN accepted)
NextHist ==
    \/ \E c \in Conns : Join(c, Str(Ann), Str(<<"D","e","v">>))
    \/ \E c \in Conns :
          SendMessage(c, Str(Numeral(BroadcastCount + 1)), NoReply)
             /\ BroadcastCount' <= MaxPosts
    \/ \E c \in Conns : BroadcastCount <= MaxMsgs /\ Disconnect(c)
    \/ FireTimer
    \/ BroadcastCount <= MaxMsgs /\ Quiet
SpecHist == Init /\ [][NextHist]_vars

\* The typing sets as the clock moves on in halves of the sweep period: the
\* handler's window, the interval callback, and the members who leave.
HalfTick ==
    /\ now + SWEEP_PERIOD \div 2 <= MaxHalfTicks * (SWEEP_PERIOD \div 2)
    /\ ~TimerDue
    /\ ~SweepPending
    /\ now' = now + SWEEP_PERIOD \div 2
    /\ lastOp' = [op |-> "tick"]
    /\ emitted' = <<>>
    /\ UNCHANGED <<connected, users, channels, messageHistory, rooms, timers, asyncVars, accepted>>
NextTyping ==
    \/ \E c \in Conns, p \in TypingJoinInputs : Join(c, p[1], p[2])
    \/ \E c \in Conns, t \in RawTyping : Typing(c, t)
    \/ \E c \in Conns : Disconnect(c)
    \/ Sweep
    \/ HalfTick
    \/ FireTimer
    \/ Quiet
SpecTyping == Init /\ [][NextTyping]_vars

\* Channels with messages that are left and entered until their setTimeout
\* callbacks run.  Time goes on and a callback that is due runs.  No channel
\* is left so late that its callback is due after the end of the run.
TimersFireable ==
    \A i \in 1..Len(timers) : timers[i].due <= MaxTicks * TickMs + CHANNEL_GRACE
NextExpiry ==
    \/ \E c \in Conns, p \in ExpiryJoinInputs : Join(c, p[1], p[2]) /\ TimersFireable'
    \/ \E c \in Conns :
          SendMessage(c, Str(<<"h","i">>), NoReply) /\ StoredMessages' <= MaxMsgs
    \/ \E c \in Conns : Disconnect(c) /\ TimersFireable'
    \/ FireTimer
    \/ Tick
    \/ Quiet
SpecExpiry == Init /\ [][NextExpiry]_vars /\ WF_vars(FireTimer) /\ WF_vars(Quiet)

\* The join, typing and disconnect handlers of src/chat-server.js.
ChatServerJoin(c, username, channel) ==
    /\ c \in connected
    /\ Commit(chatServer_join(Registry, c, username, channel))
    /\ lastOp' = [op |-> "join-channel", conn |-> c]
    /\ UNCHANGED <<connected, now, asyncVars>>
ChatServerTyping(c, isTyping) ==
    /\ c \in connected
    /\ Commit(chatServer_typing(Registry, c, isTyping))
    /\ lastOp' = [op |-> "typing", conn |-> c, isTyping |-> isTyping]
    /\ UNCHANGED <<connected, now, asyncVars>>
ChatServerDisconnect(c) ==
    /\ c \in connected
    /\ connected' = connected \ {c}
    /\ Commit(chatServer_disconnect([Registry EXCEPT !.rooms[c] = {}], c))
    /\ lastOp' = [op |-> "disconnect", conn |-> c]
    /\ UNCHANGED <<now, asyncVars>>
NextChatServer ==
    \/ \E c \in Conns, p \in ChatServerJoinInputs : ChatServerJoin(c, p[1], p[2])
    \/ \E c \in Conns, t \in RawTyping : ChatServerTyping(c, t)
    \/ \E c \in Conns : ChatServerDisconnect(c)
SpecChatServer == Init /\ [][NextChatServer]_vars

\* Ann and Bob enter 'general', say hello, ask for the list and leave, in
\* any order and any number of times.
NextScenario ==
    \/ \E c \in Conns, p \in ScenarioJoinInputs : Join(c, p[1], p[2])
    \/ \E c \in Conns :
          SendMessage(c, Str(Hello), NoReply) /\ StoredMessages' <= MaxMsgs
    \/ \E c \in Conns : GetUsers(c)
    \/ \E c \in Conns : Disconnect(c)
SpecScenario == Init /\ [][NextScenario]_vars

\* Two raw channel names with one key: the members enter, write, type and
\* leave.
NextKeys ==
    \/ \E c \in Conns, p \in TypingJoinInputs : Join(c, p[1], p[2])
    \/ \E c \in Conns :
          SendMessage(c, Str(<<"h","i">>), NoReply) /\ StoredMessages' <= MaxMsgs
    \/ \E c \in Conns : Typing(c, Bool(TRUE))
    \/ \E c \in Conns : Disconnect(c)
SpecKeys == Init /\ [][NextKeys]_vars

\* A member sends bodies with emote references to the awaiting handler.
NextEmotes ==
    \/ \E c \in Conns : Join(c, Str(Ann), Str(<<"D","e","v">>))
    \/ \E c \in Conns, b \in EmoteBodies : SendStart(c, Str(b), NoReply)
    \/ \E k \in pending, ok \in BOOLEAN, catalog \in Catalogs : SendResume(k, ok, catalog)
    \/ \E c \in Conns : Disconnect(c)
SpecEmotes == Init /\ [][NextEmotes]_vars

\* app.get('/api/channels', ...): the answer is built from the channels map.
GetChannels ==
    /\ Commit(Registry)
    /\ lastOp' = [op |-> "get-channels", body |-> [channels |-> channelStats(Registry)]]
    /\ UNCHANGED <<connected, now, asyncVars>>

\* Members come and go while the user list and the statistics are read.
NextQueries ==
    \/ \E c \in Conns, p \in QueryJoinInputs : Join(c, p[1], p[2])
    \/ \E c \in Conns : GetUsers(c)
    \/ GetChannels
    \/ \E c \in Conns : Disconnect(c)
SpecQueries == Init /\ [][NextQueries]_vars

\* Ann posts numbered messages, one after the other, on the first connection,
\* while the second connection enters the channel as Bob, again and again.
NextReplay ==
    \/ Join(1, Str(Ann), Str(<<"D","e","v">>))
    \/ Join(MaxConns, Str(Bob), Str(<<"D","e","v">>))
    \/ /\ SendMessage(1, Str(Numeral(BroadcastCount + 1)), NoReply)
       /\ BroadcastCount' <= MaxReplayPosts
    \/ \E c \in Conns : BroadcastCount <= MaxMsgs /\ Disconnect(c)
SpecReplay == Init /\ [][NextReplay]_vars

\* A member sends to the awaiting handler and leaves while the handler
\* waits; time goes on and the setTimeout callbacks run.
NextAwait ==
    \/ \E c \in Conns : Join(c, Str(Ann), Str(<<"D","e","v">>))
    \/ \E c \in Conns : SendStart(c, Str(<<"h","i">>), NoReply)
    \/ \E k \in pending, ok \in BOOLEAN, catalog \in Catalogs : SendResume(k, ok, catalog)
    \/ \E c \in Conns : Disconnect(c)
    \/ FireTimer
    \/ Quiet
SpecAwait == Init /\ [][NextAwait]_vars

\* Ann and Bob write bodies at the limits of the validator into one channel.
NextBodies ==
    \/ \E c \in Conns, p \in TypingJoinInputs : Join(c, p[1], p[2])
    \/ \E c \in Conns, b \in BodyInputs :
          SendMessage(c, b, NoReply) /\ StoredMessages' <= MaxMsgs
    \/ \E c \in Conns : Disconnect(c)
SpecBodies == Init /\ [][NextBodies]_vars

\* Joins under names and channels that the validators change.
NextNames ==
    \/ \E c \in Conns, p \in NameJoinInputs : Join(c, p[1], p[2])
    \/ \E c \in Conns :
          SendMessage(c, Str(<<"h","i">>), NoReply) /\ StoredMessages' <= MaxMsgs
    \/ \E c \in Conns : Disconnect(c)
SpecNames == Init /\ [][NextNames]_vars

(***************************************************************************)
(* The claims.                                                             *)
(***************************************************************************)
\* The channels in whose member map the connection appears.
MembershipsOf(c) == {n \in DOMAIN channels : c \in DOMAIN channels[n].users}

\* The last handler was a join of c that got through: it told c so.
JoinedNow(c) ==
    /\ lastOp.op = "join-channel"
    /\ lastOp.conn = c
    /\ \E i \in 1..Len(emitted) :
          emitted[i].ev = "joined-channel" /\ emitted[i].to = {c}

\* The last handler was a join of c, refused because the name was taken.
NameTakenError(c) == Event("error", {c}, [message |-> ErrUsernameTaken])
RefusedNameTaken(c, op, out) ==
    /\ op.op = "join-channel"
    /\ op.conn = c
    /\ out # <<>>
    /\ out[Len(out)] = NameTakenError(c)

\* C1: a connection has a session if and only if it is in the member map of
\* exactly one channel, which is the channel its session names and is in the
\* registry; it is never in the member maps of two channels; and after a
\* join that got through it has its session and its one membership entry.
C1_SessionIffOneMembership ==
    \A c \in Conns :
        /\ (c \in DOMAIN users) <=> (Cardinality(MembershipsOf(c)) = 1)
        /\ Cardinality(MembershipsOf(c)) <= 1
        /\ c \in DOMAIN users =>
              /\ users[c].channel \in DOMAIN channels
              /\ MembershipsOf(c) = {users[c].channel}
        /\ JoinedNow(c) => c \in DOMAIN users /\ Cardinality(MembershipsOf(c)) = 1

\* A connection has just moved: it joined a channel while the channel it left
\* is still in the registry, empty, waiting for its deletion.
C1_Witness ==
    \E c \in Conns :
        /\ JoinedNow(c)
        /\ timers # <<>>
        /\ \E n \in DOMAIN channels :
              n # users[c].channel /\ channels[n].users = EmptyMap

\* The join payload names a channel in which another connection holds the
\* same display name, ignoring case.
NameCollides(c, username, channel) ==
    LET validUsername == validateUsername(username)
        validChannel == validateChannelName(channel)
    IN  /\ ~Falsy(validUsername)
        /\ ~Falsy(validChannel)
        /\ validChannel.s \in DOMAIN channels
        /\ \E d \in DOMAIN channels[validChannel.s].users \ {c} :
              ToLowerCase(channels[validChannel.s].users[d].username)
                  = ToLowerCase(validUsername.s)

C2_NamesDiffer ==
    \A n \in DOMAIN channels :
        \A c, d \in DOMAIN channels[n].users :
            c # d => ToLowerCase(channels[n].users[c].username)
                        # ToLowerCase(channels[n].users[d].username)

\* C2: no two members of a channel have display names that are equal ignoring
\* case; a join whose normalized display name equals, ignoring case, the name
\* another connection holds in the target channel is refused with an error
\* sent to the joiner only, and adds no member to any channel.
C2_UniqueDisplayNames ==
    /\ C2_NamesDiffer
    /\ \A c \in Conns, p \in JoinInputs :
          NameCollides(c, p[1], p[2]) =>
             LET R == joinChannel(Registry, c, p[1], p[2])
             IN  /\ R.out # <<>>
                 /\ R.out[Len(R.out)] = NameTakenError(c)
                 /\ \A i \in 1..Len(R.out) :
                       R.out[i].ev = "error" => R.out[i].to = {c}
                 /\ \A n \in DOMAIN R.channels :
                       DOMAIN R.channels[n].users
                          \subseteq (IF n \in DOMAIN channels
                                     THEN DOMAIN channels[n].users ELSE {})

\* A join was refused for its name while the channel holds another member.
C2_Witness ==
    \E c \in Conns :
        /\ RefusedNameTaken(c, lastOp, emitted)
        /\ \E n \in DOMAIN channels : Size(channels[n].users) > 0

\* C3: a join refused because the display name is taken leaves the sessions,
\* the channels with their member maps and typing sets, and the histories as
\* they were, and emits nothing but the error to the joiner, also when the
\* joiner had a session before.
C3_RefusedJoinChangesNothing ==
    [][ \A c \in Conns :
          RefusedNameTaken(c, lastOp', emitted')
          => /\ UNCHANGED <<users, channels, messageHistory>>
             /\ emitted' = <<NameTakenError(c)>> ]_vars

\* What the specification calls an invalid display name, channel name and body.
InvalidName(v) ==
    \/ v.t # "string"
    \/ Len(Trim(v.s)) < 2
    \/ Len(Trim(v.s)) > 20
InvalidChannel(v) ==
    \/ v.t # "string"
    \/ StripNonChannel(Trim(v.s)) = <<>>
InvalidBody(v) ==
    \/ v.t # "string"
    \/ Trim(v.s) = <<>>
    \/ Len(Trim(v.s)) > 500
    \/ \E w \in profanityWords : Includes(ToLowerCase(Trim(v.s)), w)

\* The handler left the registry as it was and emitted one error, to c only.
AbortedWithError(R, c) ==
    /\ R.users = users
    /\ R.channels = channels
    /\ R.messageHistory = messageHistory
    /\ R.rooms = rooms
    /\ R.timers = timers
    /\ Len(R.out) = 1
    /\ R.out[1].ev = "error"
    /\ R.out[1].to = {c}

\* C4: a join with an invalid display name or channel name, and a
\* send-message with an invalid body (empty after trimming, over 500
\* characters, or with a denylisted word), is aborted with an error sent to the
\* offending connection only: sessions, memberships, typing sets and
\* histories stay as they were and no other connection gets an event.
C4_InvalidInputAborted ==
    \A c \in Conns :
        /\ \A p \in JoinInputs :
              InvalidName(p[1]) \/ InvalidChannel(p[2])
              => AbortedWithError(joinChannel(Registry, c, p[1], p[2]), c)
        /\ \A p \in SendInputs :
              InvalidBody(p[1])
              => AbortedWithError(sendMessage(Registry, c, p[1], p[2]), c)

\* A member's send-message was just refused for its body, in a channel where
\* somebody is typing and a message is stored.
C4_Witness ==
    \E c \in DOMAIN users :
        /\ lastOp = [op |-> "send-message", conn |-> c]
        /\ emitted = <<Event("error", {c}, [message |-> ErrInvalidMessage])>>
        /\ channels[users[c].channel].typingUsers # EmptyMap
        /\ users[c].channel \in DOMAIN messageHistory
        /\ Size(channels[users[c].channel].users) > 1

\* The reply reference is present and its display name or quoted body is
\* invalid.
InvalidReply(replyTo) ==
    /\ replyTo.t = "object"
    /\ InvalidName(replyTo.username) \/ InvalidBody(replyTo.messageContent)

\* C5: a send-message whose replyTo is present but invalid is refused: the
\* sender gets an error, the history gets no entry, no new-message is sent.
C5_InvalidReplyRefused ==
    [][ \A c \in Conns, p \in SendInputs :
          ( /\ lastOp'.op = "send-message"
            /\ lastOp'.conn = c
            /\ InvalidReply(p[2])
            /\ SendMessage(c, p[1], p[2]) )
          => /\ messageHistory' = messageHistory
             /\ \E i \in 1..Len(emitted') :
                   emitted'[i].ev = "error" /\ emitted'[i].to = {c}
             /\ \A i \in 1..Len(emitted') : emitted'[i].ev # "new-message" ]_vars

\* The last handler was a send-message of c that was accepted.
AcceptedSend(c) ==
    /\ lastOp.op = "send-message"
    /\ lastOp.conn = c
    /\ emitted # <<>>
    /\ \A i \in 1..Len(emitted) : emitted[i].ev # "error"

\* The number of new-message events of the last handler that reach m.
Copies(m) ==
    Cardinality({i \in 1..Len(emitted) :
                    emitted[i].ev = "new-message" /\ m \in emitted[i].to})

\* C6: when a member's send-message is accepted, every member of the
\* sender's channel, the sender included, gets exactly one new-message for
\* it, all with the same payload, the message just stored; nobody else gets
\* one.
C6_OneCopyEach ==
    \A c \in Conns :
        AcceptedSend(c) =>
            /\ c \in DOMAIN users
            /\ LET chan == users[c].channel
                   stored == messageHistory[chan][Len(messageHistory[chan])]
               IN  /\ \A m \in DOMAIN channels[chan].users : Copies(m) = 1
                   /\ \A m \in Conns \ DOMAIN channels[chan].users : Copies(m) = 0
                   /\ \A i \in 1..Len(emitted) :
                         emitted[i].ev = "new-message" => emitted[i].data = stored

\* A message was accepted in a channel with two members.
C6_Witness ==
    \E c \in Conns :
        /\ AcceptedSend(c)
        /\ Size(channels[users[c].channel].users) > 1
        /\ Copies(c) = 1

\* The last step was the awaiting send-message handler of c storing and
\* broadcasting its message.
AsyncPosted(c) ==
    /\ lastOp.op \in {"send-message-async", "send-message-resumed"}
    /\ lastOp.conn = c
    /\ emitted # <<>>
    /\ emitted[1].ev = "new-message"

\* C7: the awaiting send-message handler of src/server.js is one atomic
\* registry operation: when it stores and broadcasts the message of a
\* connection that is still open, the connection has the session it had when
\* the event arrived, is a member of the channel the message goes to, and
\* gets the message.
C7_AsyncSendAtomic ==
    \A c \in connected :
        AsyncPosted(c) =>
            LET chan == emitted[1].data.channel
            IN  /\ c \in DOMAIN users
                /\ users[c].channel = chan
                /\ chan \in DOMAIN channels
                /\ c \in DOMAIN channels[chan].users
                /\ c \in emitted[1].to

\* C8: the accepted messages of a channel are stored and broadcast in the
\* order in which their send-message events arrived.
C8_ArrivalOrder ==
    \A i, j \in 1..Len(appendLog) :
        (i < j /\ appendLog[i].channel = appendLog[j].channel)
        => appendLog[i].no < appendLog[j].no

\* The last k entries of a sequence.
LastOf(seq, k) == SubSeq(seq, Len(seq) - k + 1, Len(seq))

\* C9: the history of a channel holds at most 100 messages, and it is the
\* most recent min(n, 100) of the n messages accepted in the channel since
\* the channel was created, oldest first: a full history loses its oldest
\* entry, and only that, to a new message.
C9_HistoryIsLastHundred ==
    \A ch \in DOMAIN messageHistory :
        /\ Len(messageHistory[ch]) <= 100
        /\ ch \in DOMAIN accepted
        /\ LET n == Len(accepted[ch])
           IN  messageHistory[ch] = LastOf(accepted[ch], IF n < 100 THEN n ELSE 100)

\* 150 messages were accepted in a channel and its history is full.
C9_Witness ==
    \E ch \in DOMAIN messageHistory :
        /\ Len(accepted[ch]) = 150
        /\ Len(messageHistory[ch]) = 100
        /\ messageHistory[ch][1].message = <<"5","1">>

\* C10: a typing event with isTyping = false from a member whose name is in
\* the typing set of its channel takes the name out of the set and is
\* followed by a user-typing broadcast of the resulting set to the channel.
C10_TypingFalseClears ==
    [][ \A c \in Conns :
          ( /\ lastOp'.op = "typing"
            /\ lastOp'.conn = c
            /\ lastOp'.isTyping = Bool(FALSE)
            /\ c \in DOMAIN users
            /\ users[c].username \in DOMAIN channels[users[c].channel].typingUsers )
          => LET chan == users[c].channel
             IN  /\ users[c].username \notin DOMAIN channels'[chan].typingUsers
                 /\ \E i \in 1..Len(emitted') :
                       /\ emitted'[i].ev = "user-typing"
                       /\ emitted'[i].to = DOMAIN channels'[chan].users
                       /\ emitted'[i].data = [typingUsers |-> TypingData(channels'[chan])]
      ]_vars

\* C11: every transition that changes the typing set of a channel that has
\* members left at the change emits, in the same transition, a user-typing
\* event to the channel's room whose payload is the whole typing set after
\* the transition.  A join changes a typing set only by the leave it starts
\* with, when the room is the members before it without the joiner.
TypingSnapshotSent(room, after, out) ==
    \E i \in 1..Len(out) :
        /\ out[i].ev = "user-typing"
        /\ out[i].to = room
        /\ out[i].data = [typingUsers |-> TypingData(after)]
C11_TypingChangeBroadcast ==
    [][\A ch \in DOMAIN channels \cap DOMAIN channels' :
          LET room == IF lastOp'.op = "join-channel"
                      THEN DOMAIN channels[ch].users \ {lastOp'.conn}
                      ELSE DOMAIN channels'[ch].users
          IN  (channels'[ch].typingUsers # channels[ch].typingUsers /\ room # {})
                 => TypingSnapshotSent(room, channels'[ch], emitted')]_vars
\* The interval callback has deleted the entry of a member who stopped
\* sending typing events, and has told the room.
C11_Witness ==
    /\ lastOp.op = "interval"
    /\ \E ch \in DOMAIN channels :
          /\ Size(channels[ch].users) = 2
          /\ channels[ch].typingUsers = EmptyMap
          /\ TypingSnapshotSent(DOMAIN channels[ch].users, channels[ch], emitted)

\* C12: no user-typing snapshot is broadcast with an entry whose timestamp is
\* older than the window of the periodic sweep at the moment of the
\* broadcast.  The payload carries no timestamps: they are read from the
\* typing set of the channel the snapshot was taken from.
SnapshotOf(e, ch) ==
    /\ e.ev = "user-typing"
    /\ e.to # {}
    /\ e.to \subseteq DOMAIN channels[ch].users
    /\ e.data = [typingUsers |-> TypingData(channels[ch])]
C12_SnapshotsFresh ==
    \A i \in 1..Len(emitted) : \A ch \in DOMAIN channels :
        SnapshotOf(emitted[i], ch)
           => \A n \in DOMAIN channels[ch].typingUsers :
                 now - channels[ch].typingUsers[n].timestamp <= TYPING_SWEEP_WINDOW

\* C13: the setTimeout callback of a leave never removes a channel that has a
\* member when it runs: such a channel, its member map, its typing set and
\* its history are after the callback what they were before it.
Inhabited(ch) == ch \in DOMAIN channels /\ Size(channels[ch].users) >= 1
C13_InhabitedChannelKept ==
    [][lastOp'.op = "timeout" =>
          \A ch \in DOMAIN channels :
              Inhabited(ch) =>
                 /\ ch \in DOMAIN channels'
                 /\ channels'[ch] = channels[ch]
                 /\ ch \in DOMAIN messageHistory => ch \in DOMAIN messageHistory'
                 /\ ch \in DOMAIN messageHistory =>
                        messageHistory'[ch] = messageHistory[ch]]_vars
\* The callback of an earlier leave has run on a channel that was entered
\* again in the meantime and holds a message.
C13_Witness ==
    /\ lastOp.op = "timeout"
    /\ now >= CHANNEL_GRACE
    /\ \E ch \in DOMAIN channels :
          /\ Inhabited(ch)
          /\ ch \in DOMAIN messageHistory
          /\ Len(messageHistory[ch]) >= 1

\* C14: a channel without members is in the end deleted together with its
\* history, and is then in no entry of the channel statistics, unless it is
\* entered again; and a channel without members always has a callback
\* pending that is due no later than the grace period from now.
ChannelNames == { validateChannelName(p[2]).s : p \in ExpiryJoinInputs }
Deserted(ch) == ch \in DOMAIN channels /\ Size(channels[ch].users) = 0
Gone(ch) ==
    /\ ch \notin DOMAIN channels
    /\ ch \notin DOMAIN messageHistory
    /\ \A e \in channelStats(Registry) : e.name # ch
DeletionPending(ch) ==
    \E i \in 1..Len(timers) :
        /\ timers[i].channelName = ch
        /\ timers[i].due >= now
        /\ timers[i].due <= now + CHANNEL_GRACE
C14_DesertedChannelDeleted ==
    /\ \A ch \in ChannelNames : Deserted(ch) ~> (Gone(ch) \/ Inhabited(ch))
    /\ [](\A ch \in ChannelNames : Deserted(ch) => DeletionPending(ch))
\* A callback has deleted the last channel after the grace period: the
\* registry and the statistics are empty.
C14_Witness ==
    /\ lastOp.op = "timeout"
    /\ now >= CHANNEL_GRACE
    /\ \A ch \in ChannelNames : Gone(ch)
    /\ channelStats(Registry) = {}

\* C15: after a join that got through, the events of the join are, in this
\* order, message-history (if there is a history) and joined-channel to the
\* joiner alone, channel-info to every member with the joiner, carrying the
\* member list and the count after the insertion, and user-joined to every
\* member but the joiner.  The events of the join are those after the ones
\* of the leave it may start with, which never reach the joiner.
JoinEventNames == {"message-history", "joined-channel", "channel-info", "user-joined"}
JoinPart(c) ==
    SelectSeq(emitted,
              LAMBDA e : /\ e.ev \in JoinEventNames
                         /\ e.ev = "channel-info" => c \in e.to)
\* The name in an entry of a member list: the entry itself in
\* src/chat-server.js, its username field in src/unnamed/part_000.
ListedName(entry) ==
    IF "username" \in DOMAIN entry THEN entry.username ELSE entry
C15_JoinDelivery ==
    \A c \in Conns :
        JoinedNow(c) =>
           LET part == JoinPart(c)
               channelData == channels[users[c].channel]
               members == DOMAIN channelData.users
           IN  /\ [i \in 1..Len(part) |-> part[i].ev] \in
                     { <<"joined-channel", "channel-info", "user-joined">>,
                       <<"message-history", "joined-channel", "channel-info",
                         "user-joined">> }
               /\ \A i \in 1..Len(part) :
                     LET e == part[i]
                     IN  /\ e.ev \in {"message-history", "joined-channel"} => e.to = {c}
                         /\ e.ev = "user-joined" => e.to = members \ {c}
                         /\ e.ev = "channel-info" =>
                               /\ e.to = members
                               /\ e.data.userCount = Cardinality(members)
                               /\ DOMAIN e.data.users = members
                               /\ \A k \in members :
                                     ListedName(e.data.users[k]) =
                                        channelData.users[k].username

\* C16: when a member leaves, by a disconnect or by the leave a join starts
\* with, its session, its membership and its typing entry are removed; if
\* members remain, user-left, the typing snapshot and channel-info, in this
\* order, go to exactly the remaining members, with the count of the
\* remaining members, and not to the leaver; if none remains, nothing is
\* emitted.
LeftCleanly(R, c) ==
    LET ch == users[c].channel
        remaining == DOMAIN channels[ch].users \ {c}
    IN  /\ c \notin DOMAIN R.users
        /\ c \notin DOMAIN R.channels[ch].users
        /\ DOMAIN R.channels[ch].users = remaining
        /\ users[c].username \notin DOMAIN R.channels[ch].typingUsers
        /\ IF remaining = {} THEN R.out = <<>>
           ELSE /\ [i \in 1..Len(R.out) |-> R.out[i].ev] =
                      <<"user-left", "user-typing", "channel-info">>
                /\ \A i \in 1..Len(R.out) : R.out[i].to = remaining
                /\ R.out[1].data.username = users[c].username
                /\ R.out[1].data.userCount = Cardinality(remaining)
                /\ R.out[2].data = [typingUsers |-> TypingData(R.channels[ch])]
                /\ R.out[3].data.userCount = Cardinality(remaining)
                /\ DOMAIN R.out[3].data.users = remaining
C16_LeaveDelivery ==
    \A c \in DOMAIN users :
        /\ LeftCleanly(disconnect([Registry EXCEPT !.rooms[c] = {}], c), c)
        /\ LeftCleanly(leaveChannel(Registry, c, users[c].channel), c)
\* A member who was typing has disconnected; the other member, typing too,
\* was sent the three events.
C16_Witness ==
    /\ lastOp.op = "disconnect"
    /\ Len(emitted) = 3
    /\ emitted[1].ev = "user-left"
    /\ emitted[1].data.userCount = 1
    /\ emitted[2].ev = "user-typing"
    /\ emitted[2].data.typingUsers # EmptyMap
    /\ emitted[3].ev = "channel-info"
    /\ \A i \in 1..3 : lastOp.conn \notin emitted[i].to /\ emitted[i].to # {}

\* C17: when a member of a channel A gets through with a join to another
\* channel B, the members who remain in A are sent user-left before any
\* event of the join is emitted, and after the transition the connection is
\* a member of B, in the room of B only, and no member of A.
IsJoinEvent(e, B) ==
    \/ e.ev \in {"message-history", "joined-channel", "user-joined"}
    \/ e.ev = "channel-info" /\ e.data.channel = B
C17_LeaveBeforeJoin ==
    [][\A c \in DOMAIN users :
          LET A == users[c].channel
              remaining == DOMAIN channels[A].users \ {c}
          IN  (JoinedNow(c)' /\ users'[c].channel # A) =>
                 LET B == users'[c].channel
                 IN  /\ c \in DOMAIN channels'[B].users
                     /\ rooms'[c] = {B}
                     /\ A \in DOMAIN channels' => c \notin DOMAIN channels'[A].users
                     /\ remaining # {} =>
                           \E i \in 1..Len(emitted') :
                               /\ emitted'[i].ev = "user-left"
                               /\ emitted'[i].to = remaining
                               /\ \A k \in 1..Len(emitted') :
                                     IsJoinEvent(emitted'[k], B) => i < k]_vars
\* A member has moved to another channel; the member it left behind was
\* told first.
C17_Witness ==
    \E c \in DOMAIN users :
        /\ JoinedNow(c)
        /\ Len(emitted) >= 4
        /\ emitted[1].ev = "user-left"
        /\ emitted[1].to # {}
        /\ c \notin emitted[1].to
        /\ \E A \in DOMAIN channels :
              /\ A # users[c].channel
              /\ emitted[1].to = DOMAIN channels[A].users

\* C18: from any state in which two open connections have no session and
\* 'general' has no member, the run "a joins 'general' as Ann, b joins
\* 'general' as Bob, a sends 'hello', a disconnects" gives: joined-channel
\* to a; at b's join a channel-info with count 2 to both; exactly one
\* new-message, to both, from Ann with the body hello; at the disconnect
\* user-left with count 1 to b.
Flush(R) == [R EXCEPT !.out = <<>>]
Has(out, ev, to) == \E i \in 1..Len(out) : out[i].ev = ev /\ out[i].to = to
ScenarioHolds(a, b) ==
    LET R1 == joinChannel(Registry, a, Str(Ann), Str(General))
        R2 == joinChannel(Flush(R1), b, Str(Bob), Str(General))
        R3 == sendMessage(Flush(R2), a, Str(Hello), NoReply)
        R4 == disconnect([Flush(R3) EXCEPT !.rooms[a] = {}], a)
        posted == SelectSeq(R3.out, LAMBDA e : e.ev = "new-message")
    IN  /\ Has(R1.out, "joined-channel", {a})
        /\ \E i \in 1..Len(R2.out) :
              /\ R2.out[i].ev = "channel-info"
              /\ R2.out[i].to = {a, b}
              /\ R2.out[i].data.userCount = 2
        /\ Len(posted) = 1
        /\ posted[1].to = {a, b}
        /\ posted[1].data.username = Ann
        /\ posted[1].data.message = Hello
        /\ \E i \in 1..Len(R4.out) :
              /\ R4.out[i].ev = "user-left"
              /\ R4.out[i].to = {b}
              /\ R4.out[i].data.username = Ann
              /\ R4.out[i].data.userCount = 1
C18_AnnAndBob ==
    \A a, b \in connected :
        (/\ a # b
         /\ a \notin DOMAIN users
         /\ b \notin DOMAIN users
         /\ General \in DOMAIN channels => channels[General].users = EmptyMap)
        => ScenarioHolds(a, b)
\* The run has taken place: Ann has disconnected, Bob, the member left in
\* 'general', was told so, and the history holds Ann's hello.
C18_Witness ==
    /\ lastOp.op = "disconnect"
    /\ Has(emitted, "user-left", DOMAIN users)
    /\ emitted[1].data.username = Ann
    /\ emitted[1].data.userCount = 1
    /\ \E b \in DOMAIN users :
          users[b] = [username |-> Bob, channel |-> General,
                      color |-> getUserColor(Bob)]
    /\ General \in DOMAIN messageHistory
    /\ Len(messageHistory[General]) = 1
    /\ messageHistory[General][1].username = Ann
    /\ messageHistory[General][1].message = Hello

\* C19: a send-message, typing, get-users or disconnect event of a
\* connection without a session leaves users, channels, histories, rooms
\* and timers as they are and emits nothing, or only error events to that
\* connection.
IgnoredOrError(R, c) ==
    /\ R.users = users
    /\ R.channels = channels
    /\ R.messageHistory = messageHistory
    /\ R.rooms = rooms
    /\ R.timers = timers
    /\ \A i \in 1..Len(R.out) : R.out[i].ev = "error" /\ R.out[i].to = {c}
C19_NoSessionNoEffect ==
    \A c \in connected \ DOMAIN users :
        /\ \A p \in SendInputs : IgnoredOrError(sendMessage(Registry, c, p[1], p[2]), c)
        /\ \A t \in RawTyping : IgnoredOrError(typing(Registry, c, t), c)
        /\ IgnoredOrError(getUsers(Registry, c), c)
        /\ IgnoredOrError(disconnect([Registry EXCEPT !.rooms[c] = {}], c), c)
\* A connection without a session has sent a message while another
\* connection is a member of a channel: it alone got the error.
C19_Witness ==
    /\ lastOp.op = "send-message"
    /\ lastOp.conn \in connected \ DOMAIN users
    /\ users # EmptyMap
    /\ emitted = <<Event("error", {lastOp.conn}, [message |-> ErrInvalidMessage])>>

\* C20: the interval callback leaves a channel without an entry older than
\* the sweep window as it is and emits nothing for it; the setTimeout
\* callback of a leave, run for a channel that has a member or that is no
\* longer there, changes nothing but the list of pending callbacks and emits
\* nothing.
NothingStale(ch) ==
    \A n \in DOMAIN channels[ch].typingUsers :
        now - channels[ch].typingUsers[n].timestamp <= TYPING_SWEEP_WINDOW
C20_IdleTasksDoNothing ==
    /\ \A ch \in DOMAIN channels :
          NothingStale(ch) => sweepChannel(Registry, ch) = Registry
    /\ (\A ch \in DOMAIN channels : NothingStale(ch))
          => periodicSweep(Registry) = Registry
    /\ timers # <<>> =>
          LET ch == Head(timers).channelName
              R == [Registry EXCEPT !.timers = Tail(@)]
          IN  (ch \notin DOMAIN channels \/ Inhabited(ch))
                 => removeIfEmpty(R, ch) = R
\* The interval callback has run over a channel whose only typing entry is
\* exactly as old as the window: the entry is kept and nobody is told.
C20_Witness ==
    /\ lastOp.op = "interval"
    /\ emitted = <<>>
    /\ \E ch \in DOMAIN channels :
          /\ Inhabited(ch)
          /\ \E n \in DOMAIN channels[ch].typingUsers :
                now - channels[ch].typingUsers[n].timestamp = TYPING_SWEEP_WINDOW

\* C21: when two connections get through with joins whose raw channel names
\* differ but are the same after trimming, removing every character that is
\* no letter, digit, underscore or dash, and lowering the case, both are
\* members under one channel key: one member map, one typing set and one
\* history, and a message or a typing event of either reaches both.
ChannelKey(raw) == ToLowerCase(SelectSeq(Trim(raw), IsChannelChar))
SameKeyDifferentRaw(p, q) ==
    /\ p[2].t = "string"
    /\ q[2].t = "string"
    /\ p[2] # q[2]
    /\ ChannelKey(p[2].s) = ChannelKey(q[2].s)
SharedChannel(c, d, p, q) ==
    LET R1 == joinChannel(Registry, c, p[1], p[2])
        R2 == joinChannel(Flush(R1), d, q[1], q[2])
    IN  (Has(R1.out, "joined-channel", {c}) /\ Has(R2.out, "joined-channel", {d})) =>
           LET ch == R2.users[c].channel
               members == DOMAIN R2.channels[ch].users
               R3 == sendMessage(Flush(R2), c, Str(<<"h","i">>), NoReply)
               R4 == sendMessage(Flush(R3), d, Str(<<"h","i">>), NoReply)
               R5 == typing(Flush(R2), d, Bool(TRUE))
               before == IF ch \in DOMAIN R2.messageHistory
                         THEN Len(R2.messageHistory[ch]) ELSE 0
           IN  /\ ch = ChannelKey(p[2].s)
               /\ R2.users[d].channel = ch
               /\ {c, d} \subseteq members
               /\ R3.out = <<Event("new-message", members, R3.out[1].data)>>
               /\ R4.out = <<Event("new-message", members, R4.out[1].data)>>
               /\ Len(R4.messageHistory[ch]) = before + 2
               /\ R4.messageHistory[ch][before + 1].username = R2.users[c].username
               /\ R4.messageHistory[ch][before + 2].username = R2.users[d].username
               /\ Has(R5.out, "user-typing", members)
               /\ R2.users[d].username \in DOMAIN R5.channels[ch].typingUsers
SameKeyPairs ==
    { pq \in TypingJoinInputs \X TypingJoinInputs : SameKeyDifferentRaw(pq[1], pq[2]) }
C21_SameKeySameChannel ==
    \A c, d \in connected : \A pq \in SameKeyPairs :
        c # d => SharedChannel(c, d, pq[1], pq[2])
\* Ann, who joins 'Dev', and Bob, who joins ' dev!', are members
\* of one channel, and a message has reached both.
C21_Witness ==
    /\ lastOp.op = "send-message"
    /\ Len(emitted) = 1
    /\ emitted[1].ev = "new-message"
    /\ Cardinality(emitted[1].to) = 2
    /\ emitted[1].to = DOMAIN channels[<<"d","e","v">>].users
    /\ { users[c].username : c \in emitted[1].to } = {Ann, Bob}

\* C22: a member's message is refused, with an error to the sender and
\* without an append or a broadcast, exactly when its body holds more than
\* 10 references :name: to a name of the catalog; this for the handler of
\* src/unnamed/part_000 and for the awaiting handler of src/server.js once
\* the catalog has answered.
EmoteRefs(body) ==
    Cardinality({ in \in (1..Len(body)) \X (customEmotes \cup gifEmotes) :
                    /\ in[1] + Len(in[2]) + 1 <= Len(body)
                    /\ SubSeq(body, in[1], in[1] + Len(in[2]) + 1)
                          = <<":">> \o in[2] \o <<":">> })
Refused(R, c) ==
    /\ Len(R.out) = 1
    /\ R.out[1].ev = "error"
    /\ R.out[1].to = {c}
    /\ R.messageHistory = messageHistory
Posted(R) ==
    /\ Len(R.out) = 1
    /\ R.out[1].ev = "new-message"
    /\ R.messageHistory # messageHistory
EmoteRuleSync ==
    \A c \in DOMAIN users : \A b \in EmoteBodies :
        LET R == sendMessage(Registry, c, Str(b), NoReply)
        IN  IF EmoteRefs(b) > 10 THEN Refused(R, c) ELSE Posted(R)
EmoteRuleAsync ==
    \A k \in pending : \A catalog \in Catalogs :
        LET R == sendMessageResume(Registry, k, catalog)
        IN  IF EmoteRefs(k.validMessage) > 10 THEN Refused(R, k.conn) ELSE Posted(R)
C22_RefusedIffOverTen == EmoteRuleSync /\ EmoteRuleAsync

\* C23: a get-users event of a member emits one users-list event, to that
\* connection alone, that lists exactly the members of its channel, and
\* changes nothing in the registry; the answer to GET /api/channels lists
\* the channels with their member counts, and the request changes nothing
\* and emits nothing.
RegistryUnchanged ==
    UNCHANGED <<users, channels, messageHistory, rooms, timers>>
C23_QueriesReadOnly ==
    [][/\ (lastOp'.op = "get-users" /\ lastOp'.conn \in DOMAIN users) =>
            LET c == lastOp'.conn
                channelData == channels[users[c].channel]
            IN  /\ RegistryUnchanged
                /\ Len(emitted') = 1
                /\ emitted'[1].ev = "users-list"
                /\ emitted'[1].to = {c}
                /\ DOMAIN emitted'[1].data.users = DOMAIN channelData.users
                /\ \A k \in DOMAIN channelData.users :
                      emitted'[1].data.users[k] =
                         [username |-> channelData.users[k].username,
                          color |-> channelData.users[k].color]
       /\ lastOp'.op = "get-channels" =>
            /\ RegistryUnchanged
            /\ emitted' = <<>>
            /\ { e.name : e \in lastOp'.body.channels } = DOMAIN channels
            /\ \A e \in lastOp'.body.channels :
                  e.userCount = Cardinality(DOMAIN channels[e.name].users)]_vars
\* A member of a channel of two has asked for the list and got both names.
C23_Witness ==
    /\ lastOp.op = "get-users"
    /\ Len(emitted) = 1
    /\ emitted[1].ev = "users-list"
    /\ emitted[1].to = {lastOp.conn}
    /\ Cardinality(DOMAIN emitted[1].data.users) = 2

\* C24: a setTimeout callback deletes a channel only when the channel has
\* been without members for the whole grace period: every leave that
\* emptied it, each of which left a callback due one grace period later,
\* lies at least that far back.
C24_DeletedOnlyAfterFullGrace ==
    [][lastOp'.op = "timeout" =>
          \A ch \in DOMAIN channels \ DOMAIN channels' :
              \A i \in 1..Len(timers) :
                  timers[i].channelName = ch => timers[i].due <= now]_vars

\* C25: after a join that got through, the joiner has been sent the last
\* min(50, length) messages of the stored history of its channel, in the
\* stored order, in one message-history event; and no message-history event
\* at all when nothing is stored.
StoredHistory(ch) == IF ch \in DOMAIN messageHistory THEN messageHistory[ch] ELSE <<>>
Replays(c) == SelectSeq(emitted, LAMBDA e : e.ev = "message-history")
LastFifty(h) == SubSeq(h, (IF Len(h) > 50 THEN Len(h) - 50 ELSE 0) + 1, Len(h))
C25_ReplayIsLastFifty ==
    \A c \in Conns :
        JoinedNow(c) =>
           LET h == StoredHistory(users[c].channel)
           IN  IF h = <<>> THEN Replays(c) = <<>>
               ELSE Replays(c) =
                       <<Event("message-history", {c}, [messages |-> LastFifty(h)])>>
\* A connection has joined a channel that stores more than 50 messages and
\* was sent 50 of them.
C25_Witness ==
    \E c \in Conns :
        /\ JoinedNow(c)
        /\ Len(StoredHistory(users[c].channel)) > 50
        /\ Len(Replays(c)) = 1
        /\ Len(Replays(c)[1].data.messages) = 50

\* C26: a connection that joins a channel and stays in it sees every message
\* accepted in the channel at most once. The join delivers no new-message to
\* the joiner, and its replay holds a message accepted before the join exactly
\* when the message is among the last 50 accepted; a message accepted later
\* is delivered as new-message exactly once to every member, is in no event
\* of another kind, and differs from every message accepted before it, hence
\* from every message of an earlier replay.
AcceptedIn(ch) == IF ch \in DOMAIN accepted THEN accepted[ch] ELSE <<>>
Deliveries(c, ev) == SelectSeq(emitted, LAMBDA e : e.ev = ev /\ c \in e.to)
ReplayedTo(c) ==
    LET r == Deliveries(c, "message-history")
    IN  IF r = <<>> THEN {} ELSE {r[1].data.messages[i] : i \in 1..Len(r[1].data.messages)}
SeenAtJoin(c) ==
    LET a == AcceptedIn(users[c].channel)
    IN  /\ Deliveries(c, "new-message") = <<>>
        /\ Len(Deliveries(c, "message-history")) <= 1
        /\ \A i \in 1..Len(a) : (a[i] \in ReplayedTo(c)) <=> (i > Len(a) - 50)
        /\ ReplayedTo(c) \subseteq {a[i] : i \in 1..Len(a)}
SeenAtSend(ch) ==
    LET a == AcceptedIn(ch)
        msg == a[Len(a)]
    IN  /\ \A c \in Conns :
              LET d == Deliveries(c, "new-message")
              IN  IF c \in DOMAIN channels[ch].users
                  THEN d = <<Event("new-message", DOMAIN channels[ch].users, msg)>>
                  ELSE d = <<>>
        /\ \A i \in 1..Len(emitted) : emitted[i].ev = "new-message"
        /\ \A i \in 1..(Len(a) - 1) : a[i] # msg
C26_SeenAtMostOnce ==
    /\ \A c \in Conns : JoinedNow(c) => SeenAtJoin(c)
    /\ (lastOp.op = "send-message" /\ \E i \in 1..Len(emitted) : emitted[i].ev = "new-message")
          => \E ch \in DOMAIN channels :
                /\ lastOp.conn \in DOMAIN channels[ch].users
                /\ SeenAtSend(ch)
\* More than 50 messages were accepted in a channel; Bob, who joined later
\* than the first of them, and Ann have just been delivered the newest one.
C26_Witness ==
    /\ lastOp.op = "send-message"
    /\ \E ch \in DOMAIN channels :
          /\ DOMAIN channels[ch].users = Conns
          /\ Len(AcceptedIn(ch)) > 50
          /\ \A c \in Conns : Len(Deliveries(c, "new-message")) = 1

\* C27: every channel with a stored history is a live channel: a history is
\* created only for a channel that exists, and it is deleted in the step that
\* deletes its channel.
HistoryOnlyOfLiveChannels == DOMAIN messageHistory \subseteq DOMAIN channels
C27_HistoryOnlyOfLiveChannels == HistoryOnlyOfLiveChannels

\* C28: every name in the typing set of a channel is the display name of a
\* current member of the channel, and once a member has left, by a disconnect
\* or by the leave a join starts with, the typing set of the channel it left
\* has no entry under its name.
TypistsAreMembers ==
    \A n \in DOMAIN channels :
        \A name \in DOMAIN channels[n].typingUsers :
            \E c \in DOMAIN channels[n].users : channels[n].users[c].username = name
LeaveClearsTyping ==
    \A c \in DOMAIN users :
        (lastOp' \in {[op |-> "disconnect", conn |-> c], [op |-> "join-channel", conn |-> c]}
           /\ users[c].channel \in DOMAIN channels')
        => ~(users[c].username \in DOMAIN channels'[users[c].channel].typingUsers)
C28_TypistsAreMembers == [][TypistsAreMembers' /\ LeaveClearsTyping]_vars
\* A member has gone; the channel it left has a member who is typing.
C28_Witness ==
    /\ lastOp.op = "disconnect"
    /\ \E n \in DOMAIN channels :
          /\ Has(emitted, "user-left", DOMAIN channels[n].users)
          /\ channels[n].typingUsers # EmptyMap

\* C29: after every handler, for every channel the sockets in the transport
\* room of the channel are the keys of its member map; so the new-message of
\* an accepted send and the channel-info of a join went to exactly the
\* members, and the user-joined of a join to the members other than the
\* joiner.
RoomsAreMembers ==
    \A n \in DOMAIN channels : RoomOf(Registry, n) = DOMAIN channels[n].users
BroadcastsReachMembers ==
    /\ \A i \in 1..Len(emitted) :
          emitted[i].ev = "new-message"
          => /\ emitted[i].data.channel \in DOMAIN channels
             /\ emitted[i].to = DOMAIN channels[emitted[i].data.channel].users
    /\ \A c \in Conns :
          JoinedNow(c) =>
             LET members == DOMAIN channels[users[c].channel].users
                 info == SelectSeq(emitted, LAMBDA e : e.ev = "channel-info")
                 joined == SelectSeq(emitted, LAMBDA e : e.ev = "user-joined")
             IN  /\ info # <<>>
                 /\ info[Len(info)].to = members
                 /\ Len(joined) = 1
                 /\ joined[1].to = members \ {c}
C29_RoomsAreMembers == RoomsAreMembers /\ BroadcastsReachMembers
\* A member of a channel with two members has just left it and entered it
\* again: the other member was told both.
C29_Witness ==
    \E c \in Conns :
        /\ JoinedNow(c)
        /\ Has(emitted, "user-left", Conns \ {c})
        /\ Has(emitted, "user-joined", Conns \ {c})
        /\ Cardinality(Conns) > 1

\* C30: a send-message, a typing event or a leave (a disconnect, or the leave
\* a join starts with) of a member of channel A leaves the member map, the
\* typing set and the history of every other channel as they were, and every
\* event it emits goes to members of A only.
HistoryIn(R, n) == IF n \in DOMAIN R.messageHistory THEN R.messageHistory[n] ELSE <<>>
StaysInChannel(R, A) ==
    /\ \A n \in DOMAIN channels \ {A} :
          /\ n \in DOMAIN R.channels
          /\ R.channels[n] = channels[n]
          /\ HistoryIn(R, n) = HistoryIn(Registry, n)
    /\ DOMAIN R.channels \subseteq DOMAIN channels
    /\ DOMAIN R.messageHistory \subseteq DOMAIN messageHistory \cup {A}
    /\ \A i \in 1..Len(R.out) : R.out[i].to \subseteq DOMAIN channels[A].users
C30_OtherChannelsUntouched ==
    \A c \in DOMAIN users :
        LET A == users[c].channel
        IN  /\ \A p \in SendInputs : StaysInChannel(sendMessage(Registry, c, p[1], p[2]), A)
            /\ \A t \in RawTyping : StaysInChannel(typing(Registry, c, t), A)
            /\ StaysInChannel(leaveChannel(Registry, c, A), A)
            /\ StaysInChannel(disconnect([Registry EXCEPT !.rooms[c] = {}], c), A)
\* A member of one channel has just sent a typing event, while the other
\* channel has a member who is typing and a stored message.
C30_Witness ==
    \E c \in DOMAIN users, n \in DOMAIN channels :
        /\ lastOp = [op |-> "typing", conn |-> c, isTyping |-> Bool(TRUE)]
        /\ emitted # <<>>
        /\ n # users[c].channel
        /\ channels[n].users # EmptyMap
        /\ channels[n].typingUsers # EmptyMap
        /\ HistoryIn(Registry, n) # <<>>

\* C31: the two sweeps have windows of their own and read the timestamps the
\* entries have at that moment: after a typing event of a member of a channel
\* no entry of the channel, of whatever member, is older than 5 seconds; the
\* interval callback deletes exactly the entries older than 10 seconds, so no
\* entry set or refreshed within the last 10 seconds.
Age(entry) == now - entry.timestamp
TypingEvent(c) == lastOp'.op = "typing" /\ lastOp'.conn = c
HandlerEvictsOverFive(c) ==
    \A n \in DOMAIN channels'[users[c].channel].typingUsers :
        now - channels'[users[c].channel].typingUsers[n].timestamp <= 5000
SweepEvictsExactlyOverTen ==
    lastOp'.op = "interval" =>
       \A ch \in DOMAIN channels :
          /\ ch \in DOMAIN channels'
          /\ DOMAIN channels'[ch].typingUsers =
                {n \in DOMAIN channels[ch].typingUsers :
                    Age(channels[ch].typingUsers[n]) <= 10000}
          /\ \A n \in DOMAIN channels'[ch].typingUsers :
                channels'[ch].typingUsers[n] = channels[ch].typingUsers[n]
\* The part that holds: the events with isTyping = true, and the interval.
C31_TypingTrueAndSweep ==
    [][/\ \A c \in DOMAIN users :
             (TypingEvent(c) /\ lastOp'.isTyping = Bool(TRUE)) => HandlerEvictsOverFive(c)
       /\ SweepEvictsExactlyOverTen]_vars
C31_TwoWindows ==
    [][/\ \A c \in DOMAIN users : TypingEvent(c) => HandlerEvictsOverFive(c)
       /\ SweepEvictsExactlyOverTen]_vars

\* C32: within the history of one channel no two messages have the same id,
\* two messages accepted from one connection at one reading of the clock
\* included.
C32_IdsDistinct ==
    \A ch \in DOMAIN messageHistory :
        \A i, j \in 1..Len(messageHistory[ch]) :
            i # j => messageHistory[ch][i].id # messageHistory[ch][j].id

\* C33: every message stored in the history of a channel has a body that is
\* trimmed, 1 to 500 characters long and free of the denylisted words in
\* whatever letter case, and names the channel it is stored under; and the
\* message a send-message adds carries the display name and the color that
\* the session of the sender had when the handler ran.
SpaceFree(ch) == Trim(<<ch>>) = <<ch>>
WellFormedBody(body) ==
    /\ Len(body) >= 1
    /\ Len(body) <= 500
    /\ SpaceFree(body[1]) /\ SpaceFree(body[Len(body)])
    /\ \A w \in {<<"s","p","a","m">>, <<"s","c","a","m">>} :
          ~\E i \in 1..Len(body) :
               /\ i + 3 <= Len(body)
               /\ \A j \in 1..4 : LowerChar(body[i + j - 1]) = w[j]
StoredWellFormed ==
    \A ch \in DOMAIN messageHistory' :
        \A i \in 1..Len(messageHistory'[ch]) :
            /\ WellFormedBody(messageHistory'[ch][i].message)
            /\ messageHistory'[ch][i].channel = ch
StoredFromSession ==
    (lastOp'.op = "send-message" /\ messageHistory' # messageHistory)
    => LET c == lastOp'.conn
       IN  /\ c \in DOMAIN users
           /\ users[c].channel \in DOMAIN messageHistory'
           /\ LET h == messageHistory'[users[c].channel]
                   msg == h[Len(h)]
               IN  /\ msg.username = users[c].username
                   /\ msg.color = users[c].color
                   /\ msg.channel = users[c].channel
                   /\ messageHistory' =
                         MapSet(messageHistory, users[c].channel,
                                Append(HistoryIn(Registry, users[c].channel), msg))
C33_StoredMessagesWellFormed == [][StoredWellFormed /\ StoredFromSession]_vars
\* A body of 500 characters, sent with a space on either side by one of two
\* members, is stored and was delivered to both.
C33_Witness ==
    /\ lastOp.op = "send-message"
    /\ \E ch \in DOMAIN messageHistory :
          /\ Len(messageHistory[ch]) = 1
          /\ Size(channels[ch].users) = 2
          /\ Len(messageHistory[ch][1].message) = 500
          /\ emitted = <<Event("new-message", DOMAIN channels[ch].users, messageHistory[ch][1])>>

\* C34: every display name of a session or of a member entry has 2 to 20
\* characters, none of them an angle bracket; every channel key of the
\* registry is non-empty and made of lowercase letters, digits, underscore
\* and dash; and a join whose name or channel is empty after normalization
\* is refused with an error.
WellFormedName(name) ==
    /\ Len(name) >= 2
    /\ Len(name) <= 20
    /\ \A i \in 1..Len(name) : ~(name[i] \in {"<", ">"})
WellFormedKey(key) ==
    /\ key # <<>>
    /\ \A i \in 1..Len(key) : key[i] \in LowerSet \cup DigitSet \cup {"_", "-"}
NamesWellFormed ==
    /\ \A c \in DOMAIN users : WellFormedName(users[c].username)
    /\ \A n \in DOMAIN channels :
          \A c \in DOMAIN channels[n].users : WellFormedName(channels[n].users[c].username)
KeysWellFormed ==
    /\ \A n \in DOMAIN channels \cup DOMAIN messageHistory : WellFormedKey(n)
    /\ \A c \in DOMAIN users : WellFormedKey(users[c].channel)
EmptyRefused ==
    \A c \in connected : \A p \in NameJoinInputs :
        (StripAngle(Trim(p[1].s)) = <<>> \/ StripNonChannel(Trim(p[2].s)) = <<>>)
        => AbortedWithError(joinChannel(Registry, c, p[1], p[2]), c)
\* The part that holds: the channel keys and the refusals.
C34_KeysAndRefusals == KeysWellFormed /\ EmptyRefused
Y20 == Repeat(<<"y">>, MAX_USERNAME_LENGTH)
ColorNames ==
    { Ann, Bob, <<"a">>, Y20, <<"G","e","n","e","r","a","l">>,
      <<"z","z","z","z","z","z","z","z">> }
\* The tags that the function of the source returns for these names.
ColorByTheSource(name) ==
    CASE name = Ann -> "user-indigo"
      [] name = Bob -> "user-purple"
      [] name = <<"a">> -> "user-orange"
      [] name = Y20 -> "user-lime"
      [] name = <<"G","e","n","e","r","a","l">> -> "user-red"
      [] name = <<"z","z","z","z","z","z","z","z">> -> "user-red"
HashNegativeAt(name, n) == HashFrom(name, n).hi < 0
HashBeyond32At(name, n) == HashFrom(name, n).hi >= 32768 \/ HashFrom(name, n).hi < 0 - 32768
ColorIndexInRange ==
    \A name \in ColorNames :
        LET hash == HashFrom(name, Len(name))
            index == ModColors(AbsWide(hash))
        IN  /\ hash.lo \in 0..(W16 - 1)
            /\ index \in 0..11
            /\ getUserColor(name) = userColors[index + 1]
            /\ getUserColor(name) = ColorByTheSource(name)
HardNamesCovered ==
    /\ \E name \in ColorNames : HashNegativeAt(name, Len(name))
    /\ \E name \in ColorNames : \E n \in 1..Len(name) : HashBeyond32At(name, n)
StoredColorsFromNames ==
    /\ \A c \in DOMAIN users :
          /\ users[c].color = getUserColor(users[c].username)
          /\ users[c].username \in ColorNames => users[c].color = ColorByTheSource(users[c].username)
    /\ \A n \in DOMAIN channels : \A c \in DOMAIN channels[n].users :
          channels[n].users[c].color = getUserColor(channels[n].users[c].username)
    /\ \A n \in DOMAIN messageHistory : \A i \in 1..Len(messageHistory[n]) :
          messageHistory[n][i].color = getUserColor(messageHistory[n][i].username)
C35_ColorFromNameAlone == ColorIndexInRange /\ HardNamesCovered /\ StoredColorsFromNames
\* The member with the name of twenty y, whose hash ends negative after
\* having left the 32-bit range, has its color in its session and in the
\* message it wrote.
C35_Witness ==
    \E c \in DOMAIN users :
        /\ users[c].username = Y20
        /\ users[c].color = "user-lime"
        /\ HashNegativeAt(Y20, Len(Y20))
        /\ users[c].channel \in DOMAIN messageHistory
        /\ messageHistory[users[c].channel][1].username = Y20
        /\ messageHistory[users[c].channel][1].color = "user-lime"

=============================================================================
